---- MODULE Spec2Model ----
(***************************************************************************)
(* Verification model of the protocol layer of Bitterbot-Core:             *)
(*   orchestrator/resource_manager.rs  (ResourceManager, the resource      *)
(*                                      ledger)                            *)
(*   orchestrator/task_scheduler.rs    (TaskScheduler, the task queue)     *)
(*   validator/consensus_engine.rs     (ConsensusEngine, the quorum)       *)
(*   worker/task_executor.rs           (TaskExecutor)                      *)
(*   orchestrator/coordination_engine.rs (CoordinationEngine)              *)
(*   discovery/service_registry.rs     (ServiceRegistry)                   *)
(*   worker/health_reporter.rs         (HealthReporter)                    *)
(*   discovery/network_topology.rs     (NetworkTopology)                   *)
(*   discovery/peer_discovery.rs       (PeerDiscovery)                     *)
(*                                                                         *)
(* The ledger, the queue and the quorum are each modelled twice: with      *)
(* every handler as one atomic action (the handlers run under one lock),   *)
(* and with the handlers cut into the steps threads interleave (lock,      *)
(* read, write, unlock), to check the locking itself.  QuorumSpec runs the *)
(* quorum arithmetic over a range of engines, LiveSpec the task pipeline   *)
(* under fairness.  The executor with cancellation, the registry (atomic   *)
(* and cut at its three locks), the reporter, the topology graph and peer  *)
(* discovery have a specification each.                                    *)
(***************************************************************************)
EXTENDS Integers, Sequences, FiniteSets, Bags, TLC

(***************************************************************************)
(* Bounds of the model.                                                    *)
(***************************************************************************)
\* u64 is modelled as 0..U64Max: U64Max stands for u64::MAX, and arithmetic
\* that exceeds it overflows.
U64Max == 5
\* Reservations (successful allocate calls not yet released) held at once.
MaxReservations == 2

\* Amounts the concurrent callers of the ledger pass: 0..MaxConcAmount.
MaxConcAmount == 1

\* The largest max_queue_size a TaskScheduler is constructed with.
MaxQueueSize == 3
\* Tasks the callers create in one run (each schedule_task call passes a new one).
MaxTasks == 4
\* The retries a task is allowed (max_retries of the queue's callers).
MaxRetries == 1
\* The largest validator_count a quorum is computed for.
MaxValidatorCount == 10
\* The tasks the callers of the executor execute and cancel: 1..MaxExecTasks.
MaxExecTasks == 2
\* The largest heartbeat_timeout (seconds) a ServiceRegistry is built with.
MaxTimeout == 2
\* The seconds the clock runs for after the registry is built.
MaxTime == 4

U64Mod == U64Max + 1

\* Resource ids (HashMap keys, String in the source).
RIDs == {"r1"}
\* Values a caller passes as capacity, available or amount: any u64.
Amounts == 0..U64Max

\* The threads that call into a component concurrently.
Threads == {"t1", "t2"}
NoThread == "none"
\* Resource ids and values the concurrent callers of the ledger use.
ConcRIDs == {"r1", "r2"}
ConcAmounts == 0..MaxConcAmount
\* Task.priority (u8) values the callers use: Normal, High and Critical of
\* shared::Priority.
Priorities == {5, 8, 10}

VARIABLES
    \* ---- ResourceManager (resource_manager.rs) ----
    resources,        \* HashMap<String, Resource>: [registered ids -> [capacity, available]]
    poisoned,         \* the RwLock is poisoned: a holder of the write guard panicked
    overflow_checks,  \* build profile: TRUE = arithmetic overflow panics, FALSE = it wraps
    reservations,     \* history: the bag of granted allocations not yet released
    ret,              \* history: the last call, its arguments, result and available before it
    \* ---- threads inside a handler ----
    pc,               \* [Threads -> the step the thread is at], "idle" outside a call
    frame,            \* [Threads -> the call's arguments, locals and result]
    \* ---- ResourceManager.resources: the RwLock ----
    rw_writer,        \* the thread holding the write guard, or NoThread
    rw_readers,       \* the threads holding a read guard
    base,             \* history: per id, available when it was registered or last released to
    granted,          \* history: per id, the amount granted by allocate since then
    \* ---- TaskScheduler (task_scheduler.rs) ----
    task_queue,       \* VecDeque<Task>, front first; a Task is [id, priority]
    max_queue_size,   \* usize, fixed by new()
    mutex,            \* the thread holding the task_queue Mutex guard, or NoThread
    qpc,              \* [Threads -> the step of the scheduler call the thread is at]
    qframe,           \* [Threads -> the call, its task and its result]
    qret,             \* history: the last completed call of the sequential scheduler
    created,          \* history: the number of tasks created; task ids are 1..created
    accepted,         \* history: the ids of the tasks schedule_task pushed
    handed,           \* history: [task id -> how often get_next_task returned it]
    \* ---- ConsensusEngine (consensus_engine.rs) ----
    state,            \* ConsensusState, behind its own RwLock
    votes,            \* HashMap<String, Vec<Vote>>: [block hashes voted on -> Seq of Vote]
    threshold,        \* f64, fixed by new(); lit: the decimal literal it was written as
    validator_count,  \* usize, fixed by new()
    votes_writer,     \* the thread holding the write guard of votes, or NoThread
    votes_readers,    \* the threads holding a read guard of votes
    cpc,              \* [Threads -> the step of the engine call the thread is at]
    cframe,           \* [Threads -> the call, its vote, votes when it got its guard, its result]
    cret,             \* history: the last completed call of the sequential engine
    cast,             \* history: the set of votes submitted since new() or reset()
    \* ---- TaskExecutor (task_executor.rs), CoordinationEngine ----
    active_tasks,     \* Vec<String>: the ids of the tasks being executed
    completed_count,  \* u64
    epc,              \* [Threads -> the step of execute_task the thread is at]
    eframe,           \* [Threads -> the task id the thread executes]
    exec_status,      \* history: [task id -> the status of its last ExecutionResult]
    eret,             \* history: the last cancel_task call, its result, the state before it
    coord,            \* the thread that drives the CoordinationEngine
    \* ---- ServiceRegistry (service_registry.rs) ----
    services,         \* HashMap<String, ServiceInfo>
    service_index,    \* HashMap<ServiceType, HashSet<String>>
    capability_index, \* HashMap<String, HashSet<String>>
    heartbeat_timeout,\* Duration in seconds, fixed by new()
    now,              \* Instant::now(), in seconds since the registry was built
    sret,             \* history: the last registry call, its result and its time
    spc,              \* [Threads -> the step of the registry call the thread is at]
    sframe,           \* [Threads -> the call, its service, the ids left to clean up]
    services_writer,  \* the thread holding the write guard of services, or NoThread
    services_readers, \* the threads holding a read guard of services
    index_writer,     \* the thread holding the write guard of service_index
    index_readers,    \* the threads holding a read guard of service_index
    capability_writer,\* the thread holding the write guard of capability_index
    \* ---- HealthReporter (health_reporter.rs) ----
    components,       \* HashMap<String, Box<dyn HealthCheckable>>: the registered names
    check_results,    \* HashMap<String, HealthCheckResult>: [names checked -> HealthStatus]
    hret,             \* history: the last reporter call and its result
    \* ---- NetworkTopology (network_topology.rs) ----
    nodes,            \* HashMap<String, NetworkNode>: [ids -> NetworkNode]
    edges,            \* Vec<NetworkEdge>
    regions,          \* HashSet<String>
    tpc,              \* [Threads -> the step of add_edge the thread is at]
    tframe,           \* [Threads -> the edge the thread is adding]
    tret,             \* history: the last topology call and its result
    \* ---- PeerDiscovery (peer_discovery.rs) ----
    config,           \* DiscoveryConfig: protocols, max_peers, bootstrap_nodes
    known_peers,      \* HashMap<String, PeerInfo>: the peer ids known
    active_discoveries, \* HashSet<DiscoveryProtocol>
    discovery_enabled,  \* bool
    pret              \* history: the last discovery call and its result

ledgerVars == <<resources, poisoned, overflow_checks, reservations, ret>>
threadVars == <<pc, frame>>
rwVars == <<rw_writer, rw_readers, base, granted>>
queueVars == <<task_queue, max_queue_size, mutex, qpc, qframe, qret,
               created, accepted, handed>>
consensusVars == <<state, votes, threshold, validator_count, votes_writer,
                   votes_readers, cpc, cframe, cret, cast>>
executorVars == <<active_tasks, completed_count, epc, eframe, exec_status, eret,
                  coord>>
registryLockVars == <<spc, sframe, services_writer, services_readers,
                      index_writer, index_readers, capability_writer>>
registryVars == <<services, service_index, capability_index, heartbeat_timeout,
                  now, sret, registryLockVars>>
healthVars == <<components, check_results, hret>>
topologyVars == <<nodes, edges, regions, tpc, tframe, tret>>
peerVars == <<config, known_peers, active_discoveries, discovery_enabled, pret>>
discoveryVars == <<topologyVars, peerVars>>
coreVars == <<ledgerVars, threadVars, rwVars, queueVars, consensusVars,
              executorVars, registryVars, healthVars>>
vars == <<resources, poisoned, overflow_checks, reservations, ret,
          pc, frame, rw_writer, rw_readers, base, granted,
          task_queue, max_queue_size, mutex, qpc, qframe, qret,
          created, accepted, handed,
          state, votes, threshold, validator_count, votes_writer,
          votes_readers, cpc, cframe, cret, cast,
          active_tasks, completed_count, epc, eframe, exec_status, eret, coord,
          services, service_index, capability_index, heartbeat_timeout, now, sret,
          spc, sframe, services_writer, services_readers, index_writer,
          index_readers, capability_writer,
          components, check_results, hret,
          nodes, edges, regions, tpc, tframe, tret,
          config, known_peers, active_discoveries, discovery_enabled, pret>>

(***************************************************************************)
(* u64 arithmetic: the value modulo 2^64 and whether it overflowed.  An    *)
(* overflow panics when overflow_checks are on (debug), wraps otherwise.   *)
(***************************************************************************)
u64_add(a, b) == [overflow |-> a + b > U64Max, value |-> (a + b) % U64Mod]
u64_sub(a, b) == [overflow |-> a < b, value |-> (a - b) % U64Mod]
Min(a, b) == IF a <= b THEN a ELSE b

(***************************************************************************)
(* f64 arithmetic (IEEE 754 binary64).  A positive f64 is its 53-bit       *)
(* significand, held in two limbs hi * 2^26 + lo, and its exponent: the    *)
(* value is (hi * 2^26 + lo) / 2^exp.                                      *)
(***************************************************************************)
Limb == 2^26

F64(hi, lo, exp) == [hi |-> hi, lo |-> lo, exp |-> exp]

\* The f64 nearest to the decimal literal p/100 (what rustc makes of 0.67).
f64_literal(p) ==
    CASE p = 10 -> F64(107374182, 26843546, 56)
      [] p = 20 -> F64(107374182, 26843546, 55)
      [] p = 34 -> F64(91268055, 2684355, 54)
      [] p = 50 -> F64(67108864, 0, 53)
      [] p = 51 -> F64(68451041, 18790482, 53)
      [] p = 60 -> F64(80530636, 53687091, 53)
      [] p = 67 -> F64(89925877, 51002737, 53)
      [] p = 75 -> F64(100663296, 0, 53)
      [] p = 90 -> F64(120795955, 13421773, 53)
      [] p = 100 -> F64(67108864, 0, 52)

\* The number of low bits the exact product n * significand has beyond 53.
excess_bits(ph) ==
    IF ph < 2 * Limb THEN 0
    ELSE IF ph < 4 * Limb THEN 1
    ELSE IF ph < 8 * Limb THEN 2
    ELSE IF ph < 16 * Limb THEN 3
    ELSE 4

\* `n as f64 * x`: the exact product, rounded to 53 bits, ties to even
\* (n is small enough to be exact as an f64).
f64_mul(n, x) ==
    LET pl_full == n * x.lo
        pl == pl_full % Limb
        ph == n * x.hi + pl_full \div Limb
        k == excess_bits(ph)
        r == pl % (2^k)
        odd == (pl \div (2^k)) % 2 = 1
        up == k > 0 /\ (2 * r > 2^k \/ (2 * r = 2^k /\ odd))
        pl1 == pl - r + (IF up THEN 2^k ELSE 0)
    IN  IF pl1 = Limb THEN F64(ph + 1, 0, x.exp) ELSE F64(ph, pl1, x.exp)

\* f64::ceil, as an integer.
f64_ceil(x) ==
    LET d == 2^(x.exp - 26)
    IN  (x.hi \div d) + (IF x.hi % d # 0 \/ x.lo # 0 THEN 1 ELSE 0)

(***************************************************************************)
(* ResourceManager                                                         *)
(***************************************************************************)
\* struct Resource { id, resource_type, capacity, available }: the id is the
\* map key, resource_type is never read.
Resource(capacity, available) == [capacity |-> capacity, available |-> available]

\* resources.insert(id, resource)
insert(m, id, r) == [k \in DOMAIN m \cup {id} |-> IF k = id THEN r ELSE m[k]]

\* register_resource: Err when the id is present, else insert.
register_resource(m, id, r) ==
    IF id \in DOMAIN m
    THEN [result |-> "AlreadyExists", resources |-> m]
    ELSE [result |-> "Ok", resources |-> insert(m, id, r)]

\* allocate, line 49: `if resource.available < amount`.
allocate_insufficient(r, amount) == r.available < amount

\* allocate, line 52: `resource.available -= amount`.
allocate_sub(r, amount) == u64_sub(r.available, amount)

\* Faulty variant of allocate: a request larger than available takes what
\* is there before it reports the error.
allocate_partial(m, id, amount, checks) ==
    IF id \notin DOMAIN m
    THEN [result |-> "NotFound", resources |-> m]
    ELSE IF allocate_insufficient(m[id], amount)
    THEN [result |-> "InsufficientResources",
          resources |-> [m EXCEPT ![id].available = 0]]
    ELSE [result |-> "Ok",
          resources |-> [m EXCEPT ![id].available = allocate_sub(m[id], amount).value]]

\* allocate: the whole handler.  panic: the subtraction overflowed under
\* overflow checks.
allocate(m, id, amount, checks) ==
    IF id \notin DOMAIN m
    THEN [result |-> "NotFound", resources |-> m]
    ELSE IF allocate_insufficient(m[id], amount)
    THEN [result |-> "InsufficientResources", resources |-> m]
    ELSE LET d == allocate_sub(m[id], amount)
         IN  IF d.overflow /\ checks
             THEN [result |-> "Panic", resources |-> m]
             ELSE [result |-> "Ok",
                   resources |-> [m EXCEPT ![id].available = d.value]]

\* release, line 64, right-hand side: `resource.available + amount`.
release_add(r, amount) == u64_add(r.available, amount)

\* release, line 64, the assignment: `.min(resource.capacity)`.
release_min(r, sum) == [r EXCEPT !.available = Min(sum, r.capacity)]

\* release: the whole handler.
release(m, id, amount, checks) ==
    IF id \notin DOMAIN m
    THEN [result |-> "NotFound", resources |-> m]
    ELSE LET s == release_add(m[id], amount)
         IN  IF s.overflow /\ checks
             THEN [result |-> "Panic", resources |-> m]
             ELSE [result |-> "Ok",
                   resources |-> [m EXCEPT ![id] = release_min(m[id], s.value)]]

\* get_resource_status: resources.get(id).cloned()
get_resource_status(m, id) ==
    IF id \in DOMAIN m THEN [result |-> "Some", value |-> m[id]]
    ELSE [result |-> "None", value |-> Resource(0, 0)]

\* The available value a call on `id` sees before it runs (0: not registered).
AvailableOf(m, id) == IF id \in DOMAIN m THEN m[id].available ELSE 0

Call(op, id, amount, result) ==
    [op |-> op, rid |-> id, amount |-> amount, result |-> result,
     before |-> AvailableOf(resources, id)]

\* `self.resources.write().unwrap()` (or read()) on a poisoned lock panics.
LockPanics(op, id, amount) ==
    /\ poisoned
    /\ ret' = Call(op, id, amount, "Panic")
    /\ UNCHANGED <<resources, poisoned, overflow_checks, reservations>>
    /\ UNCHANGED <<threadVars, rwVars, queueVars, consensusVars, executorVars, registryVars, healthVars, discoveryVars>>

\* A handler's outcome `out` is stored; a panic inside it poisons the lock.
Commit(op, id, amount, out) ==
    /\ resources' = out.resources
    /\ poisoned' = (out.result = "Panic")
    /\ ret' = Call(op, id, amount, out.result)
    /\ UNCHANGED <<overflow_checks, threadVars, rwVars, queueVars,
                   consensusVars, executorVars, registryVars, healthVars, discoveryVars>>

\* ResourceManager::new
LedgerInit ==
    /\ resources = <<>>
    /\ poisoned = FALSE
    /\ overflow_checks \in BOOLEAN
    /\ reservations = EmptyBag
    /\ ret = [op |-> "new", rid |-> "r1", amount |-> 0, result |-> "Ok", before |-> 0]

RegisterResource(id, capacity, available) ==
    \/ LockPanics("register_resource", id, 0)
    \/ /\ ~poisoned
       /\ Commit("register_resource", id, 0,
                 register_resource(resources, id, Resource(capacity, available)))
       /\ UNCHANGED reservations

\* allocate(id, amount); a granted allocation becomes an active reservation.
Allocate(id, amount) ==
    \/ LockPanics("allocate", id, amount)
    \/ /\ ~poisoned
       /\ LET out == allocate(resources, id, amount, overflow_checks)
          IN  /\ out.result = "Ok" => BagCardinality(reservations) < MaxReservations
              /\ Commit("allocate", id, amount, out)
              /\ reservations' =
                    IF out.result = "Ok"
                    THEN reservations (+) SetToBag({[rid |-> id, amount |-> amount]})
                    ELSE reservations

\* The holder of the active reservation rv releases it: release(rid, amount).
Release(rv) ==
    \/ LockPanics("release", rv.rid, rv.amount)
    \/ /\ ~poisoned
       /\ Commit("release", rv.rid, rv.amount,
                 release(resources, rv.rid, rv.amount, overflow_checks))
       /\ reservations' = reservations (-) SetToBag({rv})

\* The reservation just released is released a second time.
ReleaseAgain ==
    /\ ret.op = "release" /\ ret.result = "Ok"
    /\ ~poisoned
    /\ Commit("release_again", ret.rid, ret.amount,
              release(resources, ret.rid, ret.amount, overflow_checks))
    /\ UNCHANGED reservations

\* release(id, amount) with arguments that belong to no reservation.
ReleaseRaw(id, amount) ==
    \/ LockPanics("release_raw", id, amount)
    \/ /\ ~poisoned
       /\ Commit("release_raw", id, amount,
                 release(resources, id, amount, overflow_checks))
       /\ UNCHANGED reservations

GetResourceStatus(id) ==
    \/ LockPanics("get_resource_status", id, 0)
    \/ /\ ~poisoned
       /\ ret' = Call("get_resource_status", id, 0, get_resource_status(resources, id).result)
       /\ UNCHANGED <<resources, poisoned, overflow_checks, reservations>>
       /\ UNCHANGED <<threadVars, rwVars, queueVars, consensusVars, executorVars, registryVars, healthVars, discoveryVars>>

\* No thread is inside a call.
IdleFrame ==
    [op |-> "none", rid |-> "r1", amount |-> 0, capacity |-> 0, tmp |-> 0,
     result |-> "none"]

ThreadsInit ==
    /\ pc = [t \in Threads |-> "idle"]
    /\ frame = [t \in Threads |-> IdleFrame]

\* RwLock::new: no guard is held.
RwInit ==
    /\ rw_writer = NoThread
    /\ rw_readers = {}
    /\ base = [id \in ConcRIDs |-> 0]
    /\ granted = [id \in ConcRIDs |-> 0]

\* A Task: the payload is never read; ids number the tasks as created.
Task(id, priority) == [id |-> id, priority |-> priority]
NoTask == Task(0, 0)

\* A scheduler call: its task (argument or Some(task) returned), its result
\* and, for pending_task_count, the count returned.
QCall(op, task, result, count) ==
    [op |-> op, task |-> task, result |-> result, count |-> count]

\* The scheduler is built and idle, with no call made yet.
SchedulerIdle ==
    /\ task_queue = <<>>
    /\ mutex = NoThread
    /\ qpc = [t \in Threads |-> "idle"]
    /\ qframe = [t \in Threads |-> QCall("none", NoTask, "none", 0)]
    /\ qret = QCall("new", NoTask, "none", 0)
    /\ created = 0
    /\ accepted = {}
    /\ handed = [i \in 1..MaxTasks |-> 0]

\* The ledger is built and idle, with no call made yet.
LedgerIdle == LedgerInit /\ ThreadsInit /\ RwInit

\* struct Vote { validator_id, block_hash, timestamp, signature }: timestamp
\* and signature are never read.
Vote(validator_id, block_hash) ==
    [validator_id |-> validator_id, block_hash |-> block_hash]
NoVote == Vote("none", "none")

\* An engine call: its vote (of submit_vote; the block of check_consensus),
\* the state passed to set_state, and its result.  seen (history): the vote
\* of a submit_vote had been submitted before.
CCall(op, vote, new_state, result) ==
    [op |-> op, vote |-> vote, new_state |-> new_state, result |-> result,
     seen |-> vote \in cast]

\* No thread is inside an engine call.
IdleCFrame == [op |-> "none", vote |-> NoVote, before |-> <<>>, result |-> "none"]

\* ConsensusEngine::new(threshold, validator_count), lines 33-40, with no
\* call made yet.
EngineNew(lit, count) ==
    /\ state = "Idle"
    /\ votes = <<>>
    /\ threshold = [f64 |-> f64_literal(lit), lit |-> lit]
    /\ validator_count = count
    /\ votes_writer = NoThread
    /\ votes_readers = {}
    /\ cpc = [t \in Threads |-> "idle"]
    /\ cframe = [t \in Threads |-> IdleCFrame]
    /\ cast = {}
    /\ cret = CCall("new", NoVote, "none", "none")

\* The engine as ConsensusEngine::new(1.0, 0) left it.
EngineIdle == EngineNew(100, 0)

\* A cancel_task call: its argument and result, the active list and the
\* completed count when it was made.
ECall(task_id, result, active, count) ==
    [task_id |-> task_id, result |-> result, active |-> active, count |-> count]

\* TaskExecutor::new, lines 42-48; no CoordinationEngine is being built.
ExecutorIdle ==
    /\ active_tasks = <<>>
    /\ completed_count = 0
    /\ epc = [t \in Threads |-> "idle"]
    /\ eframe = [t \in Threads |-> 0]
    /\ exec_status = [i \in 1..MaxTasks |-> "none"]
    /\ eret = ECall(0, "none", <<>>, 0)
    /\ coord = "idle"

\* struct ServiceInfo: version, endpoint, health_check_endpoint, metadata and
\* registered_at are not read by the calls modelled.
ServiceInfo(service_id, service_type, capabilities, last_heartbeat) ==
    [service_id |-> service_id, service_type |-> service_type,
     capabilities |-> capabilities, last_heartbeat |-> last_heartbeat]

\* A registry call: the id it names, its result, the ServiceInfo values it
\* returned and the time it was made at.
SCall(op, service_id, result, found, at) ==
    [op |-> op, service_id |-> service_id, result |-> result, found |-> found,
     at |-> at]

\* A thread inside a registry call: the call, the id it names, the
\* ServiceInfo it registers or has removed, the stale ids a cleanup pass has
\* still to deregister, and the call's result.
SFrame(op, service_id, info, stale, result) ==
    [op |-> op, service_id |-> service_id, info |-> info, stale |-> stale,
     result |-> result]
NoInfo == ServiceInfo("none", "none", {}, 0)
IdleSFrame == SFrame("none", "none", NoInfo, {}, "none")

\* ServiceRegistry::new(heartbeat_timeout), lines 62-69, with no call made yet.
RegistryNew(timeout) ==
    /\ services = <<>>
    /\ service_index = <<>>
    /\ capability_index = <<>>
    /\ heartbeat_timeout = timeout
    /\ now = 0
    /\ sret = SCall("new", "none", "none", {}, 0)
    /\ spc = [t \in Threads |-> "idle"]
    /\ sframe = [t \in Threads |-> IdleSFrame]
    /\ services_writer = NoThread
    /\ services_readers = {}
    /\ index_writer = NoThread
    /\ index_readers = {}
    /\ capability_writer = NoThread

\* The registry as ServiceRegistry::new(Duration::from_secs(0)) left it.
RegistryIdle == RegistryNew(0)

\* A reporter call: the component it names, the HealthStatus it returned (the
\* overall status of a report) and, for is_healthy, the bool.
HCall(op, name, status, healthy) ==
    [op |-> op, name |-> name, status |-> status, healthy |-> healthy]

\* HealthReporter::new(check_interval), lines 49-56, with no call made yet.
ReporterIdle ==
    /\ components = {}
    /\ check_results = <<>>
    /\ hret = HCall("new", "none", "none", FALSE)

\* ResourceManager::new(); the scheduler stays as TaskScheduler::new(0) left
\* it, the engine and the executor as built.
\* A thread adding an edge, and a call of the topology with its result.
NetworkEdge(from_node, to_node) == [from_node |-> from_node, to_node |-> to_node]
NoEdge == NetworkEdge("none", "none")
TCall(op, node_id, result) == [op |-> op, node_id |-> node_id, result |-> result]

\* NetworkTopology::new(), lines 59-65, with no call made yet.
TopologyIdle ==
    /\ nodes = <<>>
    /\ edges = <<>>
    /\ regions = {}
    /\ tpc = [t \in Threads |-> "idle"]
    /\ tframe = [t \in Threads |-> NoEdge]
    /\ tret = TCall("new", "none", "none")

\* DiscoveryConfig, lines 28-34: the fields the handlers read.
DiscoveryConfig(protocols, max_peers, bootstrap_nodes) ==
    [protocols |-> protocols, max_peers |-> max_peers,
     bootstrap_nodes |-> bootstrap_nodes]
PCall(op, result) == [op |-> op, result |-> result]

\* PeerDiscovery::new(config), lines 46-53, with no call made yet.
PeerDiscoveryNew(cfg) ==
    /\ config = cfg
    /\ known_peers = {}
    /\ active_discoveries = {}
    /\ discovery_enabled = FALSE
    /\ pret = PCall("new", "none")

\* DiscoveryConfig::default(), lines 184-194.
PeerIdle == PeerDiscoveryNew(DiscoveryConfig(<<"Bootstrap", "DHT">>, 100, 0))
DiscoveryIdle == TopologyIdle /\ PeerIdle

Init == LedgerIdle /\ SchedulerIdle /\ max_queue_size = 0 /\ EngineIdle /\ ExecutorIdle /\ RegistryIdle /\ ReporterIdle /\ DiscoveryIdle

Next ==
    \/ \E id \in RIDs, c \in Amounts, a \in Amounts : RegisterResource(id, c, a)
    \/ \E id \in RIDs, n \in Amounts : Allocate(id, n)
    \/ \E rv \in BagToSet(reservations) : Release(rv)
    \/ ReleaseAgain
    \/ \E id \in RIDs, n \in Amounts : ReleaseRaw(id, n)
    \/ \E id \in RIDs : GetResourceStatus(id)

Spec == Init /\ [][Next]_vars

\* The ledger with two resource ids, its callers passing values at the edge
\* of u64: 1 and u64::MAX.
EdgeAmounts == {1, U64Max}

LedgerPairNext ==
    \/ \E id \in ConcRIDs, c \in EdgeAmounts, a \in EdgeAmounts :
          RegisterResource(id, c, a)
    \/ \E id \in ConcRIDs, n \in EdgeAmounts : Allocate(id, n)
    \/ \E id \in ConcRIDs, n \in EdgeAmounts : ReleaseRaw(id, n)
    \/ \E id \in ConcRIDs : GetResourceStatus(id)

LedgerPairSpec == Init /\ [][LedgerPairNext]_vars

(***************************************************************************)
(* ResourceManager under concurrent callers: every handler takes the one   *)
(* RwLock around the whole map (`self.resources.write()` / `.read()`),     *)
(* runs its statements, and drops the guard when it returns.               *)
(***************************************************************************)
\* Faulty variant of write_lock_free: the write guard is handed out while
\* another guard is held.
write_lock_unguarded == TRUE

\* RwLock::write() is granted when no guard, write or read, is held.
write_lock_free == rw_writer = NoThread /\ rw_readers = {}

\* RwLock::read() is granted when no write guard is held.
read_lock_free == rw_writer = NoThread

\* The first statement of a handler after it got its guard.
FirstStep(op) ==
    CASE op = "register_resource" -> "reg_check"
      [] op = "allocate" -> "alloc_check"
      [] op = "release" -> "rel_add"
      [] OTHER -> "status_read"

\* Thread t returns `result`: its guard is dropped.
Return(t, result) ==
    /\ pc' = [pc EXCEPT ![t] = "idle"]
    /\ frame' = [frame EXCEPT ![t] = [IdleFrame EXCEPT !.result = result]]
    /\ rw_writer' = IF rw_writer = t THEN NoThread ELSE rw_writer
    /\ rw_readers' = rw_readers \ {t}

\* Thread t enters a handler with its arguments.
Enter(t, op, id, amount, capacity) ==
    /\ pc' = [pc EXCEPT ![t] = FirstStep(op)]
    /\ frame' = [frame EXCEPT ![t] =
                    [op |-> op, rid |-> id, amount |-> amount,
                     capacity |-> capacity, tmp |-> 0, result |-> "none"]]

\* Thread t calls register_resource (Resource{capacity, available = amount}),
\* allocate or release, whose first statement is
\* `let mut resources = self.resources.write().unwrap();`: the call goes on
\* once the write guard is granted, and panics if the lock is poisoned.
LockWrite(t, op, id, amount, capacity) ==
    /\ pc[t] = "idle"
    /\ write_lock_free
    /\ IF poisoned
       THEN Return(t, "Panic")
       ELSE /\ Enter(t, op, id, amount, capacity)
            /\ rw_writer' = t
            /\ UNCHANGED rw_readers
    /\ UNCHANGED <<ledgerVars, base, granted>>
    /\ UNCHANGED <<queueVars, consensusVars, executorVars, registryVars, healthVars, discoveryVars>>

\* Thread t calls get_resource_status:
\* `let resources = self.resources.read().unwrap();`
LockRead(t, id) ==
    /\ pc[t] = "idle"
    /\ read_lock_free
    /\ IF poisoned
       THEN Return(t, "Panic")
       ELSE /\ Enter(t, "get_resource_status", id, 0, 0)
            /\ rw_readers' = rw_readers \cup {t}
            /\ UNCHANGED rw_writer
    /\ UNCHANGED <<ledgerVars, base, granted>>
    /\ UNCHANGED <<queueVars, consensusVars, executorVars, registryVars, healthVars, discoveryVars>>

\* register_resource, lines 37-39: `if resources.contains_key(&resource.id)`.
RegisterCheck(t) ==
    /\ pc[t] = "reg_check"
    /\ IF frame[t].rid \in DOMAIN resources
       THEN Return(t, "AlreadyExists")
       ELSE /\ pc' = [pc EXCEPT ![t] = "reg_insert"]
            /\ UNCHANGED <<frame, rw_writer, rw_readers>>
    /\ UNCHANGED <<ledgerVars, base, granted>>
    /\ UNCHANGED <<queueVars, consensusVars, executorVars, registryVars, healthVars, discoveryVars>>

\* register_resource, lines 40-41: `resources.insert(..)`, Ok.
RegisterInsert(t) ==
    /\ pc[t] = "reg_insert"
    /\ resources' = insert(resources, frame[t].rid,
                           Resource(frame[t].capacity, frame[t].amount))
    /\ base' = [base EXCEPT ![frame[t].rid] = frame[t].amount]
    /\ granted' = [granted EXCEPT ![frame[t].rid] = 0]
    /\ Return(t, "Ok")
    /\ UNCHANGED <<poisoned, overflow_checks, reservations, ret>>
    /\ UNCHANGED <<queueVars, consensusVars, executorVars, registryVars, healthVars, discoveryVars>>

\* allocate, lines 47-51 and 55: the lookup and the sufficiency check.
AllocCheck(t) ==
    /\ pc[t] = "alloc_check"
    /\ IF frame[t].rid \notin DOMAIN resources
       THEN Return(t, "NotFound")
       ELSE IF allocate_insufficient(resources[frame[t].rid], frame[t].amount)
       THEN Return(t, "InsufficientResources")
       ELSE /\ pc' = [pc EXCEPT ![t] = "alloc_sub"]
            /\ UNCHANGED <<frame, rw_writer, rw_readers>>
    /\ UNCHANGED <<ledgerVars, base, granted>>
    /\ UNCHANGED <<queueVars, consensusVars, executorVars, registryVars, healthVars, discoveryVars>>

\* allocate, lines 52-53: `resource.available -= amount`, Ok.
AllocSub(t) ==
    /\ pc[t] = "alloc_sub"
    /\ LET id == frame[t].rid
           d == allocate_sub(resources[id], frame[t].amount)
       IN  IF d.overflow /\ overflow_checks
           THEN /\ poisoned' = (rw_writer = t)
                /\ Return(t, "Panic")
                /\ UNCHANGED <<resources, granted>>
           ELSE /\ resources' = [resources EXCEPT ![id].available = d.value]
                /\ granted' = [granted EXCEPT ![id] = @ + frame[t].amount]
                /\ Return(t, "Ok")
                /\ UNCHANGED poisoned
    /\ UNCHANGED <<overflow_checks, reservations, ret, base>>
    /\ UNCHANGED <<queueVars, consensusVars, executorVars, registryVars, healthVars, discoveryVars>>

\* release, lines 62-64 and 67: the lookup and `resource.available + amount`.
ReleaseAdd(t) ==
    /\ pc[t] = "rel_add"
    /\ IF frame[t].rid \notin DOMAIN resources
       THEN Return(t, "NotFound") /\ UNCHANGED poisoned
       ELSE LET s == release_add(resources[frame[t].rid], frame[t].amount)
            IN  IF s.overflow /\ overflow_checks
                THEN poisoned' = (rw_writer = t) /\ Return(t, "Panic")
                ELSE /\ pc' = [pc EXCEPT ![t] = "rel_min"]
                     /\ frame' = [frame EXCEPT ![t].tmp = s.value]
                     /\ UNCHANGED <<poisoned, rw_writer, rw_readers>>
    /\ UNCHANGED <<resources, overflow_checks, reservations, ret, base, granted>>
    /\ UNCHANGED <<queueVars, consensusVars, executorVars, registryVars, healthVars, discoveryVars>>

\* release, lines 64-65: `resource.available = (..).min(resource.capacity)`, Ok.
ReleaseMin(t) ==
    /\ pc[t] = "rel_min"
    /\ LET id == frame[t].rid
           r == release_min(resources[id], frame[t].tmp)
       IN  /\ resources' = [resources EXCEPT ![id] = r]
           /\ base' = [base EXCEPT ![id] = r.available]
           /\ granted' = [granted EXCEPT ![id] = 0]
    /\ Return(t, "Ok")
    /\ UNCHANGED <<poisoned, overflow_checks, reservations, ret>>
    /\ UNCHANGED <<queueVars, consensusVars, executorVars, registryVars, healthVars, discoveryVars>>

\* get_resource_status, line 74: `resources.get(resource_id).cloned()`.
StatusRead(t) ==
    /\ pc[t] = "status_read"
    /\ Return(t, get_resource_status(resources, frame[t].rid).result)
    /\ UNCHANGED <<ledgerVars, base, granted>>
    /\ UNCHANGED <<queueVars, consensusVars, executorVars, registryVars, healthVars, discoveryVars>>

LedgerConcNext ==
    \/ \E t \in Threads, id \in ConcRIDs, c \in ConcAmounts, a \in ConcAmounts :
          LockWrite(t, "register_resource", id, a, c)
    \/ \E t \in Threads, id \in ConcRIDs, n \in ConcAmounts :
          LockWrite(t, "allocate", id, n, 0)
    \/ \E t \in Threads, id \in ConcRIDs, n \in ConcAmounts :
          LockWrite(t, "release", id, n, 0)
    \/ \E t \in Threads, id \in ConcRIDs : LockRead(t, id)
    \/ \E t \in Threads : RegisterCheck(t)
    \/ \E t \in Threads : RegisterInsert(t)
    \/ \E t \in Threads : AllocCheck(t)
    \/ \E t \in Threads : AllocSub(t)
    \/ \E t \in Threads : ReleaseAdd(t)
    \/ \E t \in Threads : ReleaseMin(t)
    \/ \E t \in Threads : StatusRead(t)

LedgerConcSpec == Init /\ [][LedgerConcNext]_vars

(***************************************************************************)
(* TaskScheduler                                                           *)
(***************************************************************************)
\* Faulty variant of is_full: the size test is off by one.
is_full_off_by_one(q, max) == Len(q) > max

\* schedule_task, line 30: `queue.len() >= self.max_queue_size`.
is_full(q, max) == Len(q) >= max

\* schedule_task, line 33: `queue.push_back(task)`.
push_back(q, task) == Append(q, task)

\* VecDeque::front: the head, if any.
front(q) ==
    IF Len(q) = 0 THEN [result |-> "None", task |-> NoTask]
    ELSE [result |-> "Some", task |-> Head(q)]

\* VecDeque: the head is dropped, if any.
drop_front(q) == IF Len(q) = 0 THEN q ELSE Tail(q)

\* get_next_task, line 40: `queue.pop_front()`.
pop_front(q) ==
    [result |-> front(q).result, task |-> front(q).task, queue |-> drop_front(q)]

\* schedule_task: the whole handler.
schedule_task(q, max, task) ==
    IF is_full(q, max)
    THEN [result |-> "QueueFull", queue |-> q]
    ELSE [result |-> "Ok", queue |-> push_back(q, task)]

\* get_next_task: the whole handler.
get_next_task(q) == pop_front(q)

\* Faulty variant of pending_task_count: the task at the front is not counted.
pending_task_count_behind_front(q) == IF q = <<>> THEN 0 ELSE Len(q) - 1

\* pending_task_count: `queue.len()`.
pending_task_count(q) == Len(q)

\* get_next_task returned `out`: a returned task is counted as handed out.
HandOut(out) ==
    handed' = IF out.result = "Some"
              THEN [handed EXCEPT ![out.task.id] = @ + 1]
              ELSE handed

\* TaskScheduler::new(max_queue_size); the ledger stays as built (the
\* scheduler does no arithmetic, one build profile is enough).
QueueInit ==
    /\ SchedulerIdle
    /\ max_queue_size \in 0..MaxQueueSize
    /\ LedgerIdle /\ overflow_checks = FALSE
    /\ EngineIdle /\ ExecutorIdle /\ RegistryIdle /\ ReporterIdle /\ DiscoveryIdle

\* A caller creates task number created + 1 and submits it.
ScheduleTask(priority) ==
    /\ created < MaxTasks
    /\ LET task == Task(created + 1, priority)
           out == schedule_task(task_queue, max_queue_size, task)
       IN  /\ task_queue' = out.queue
           /\ qret' = QCall("schedule_task", task, out.result, 0)
           /\ accepted' = IF out.result = "Ok" THEN accepted \cup {task.id}
                          ELSE accepted
    /\ created' = created + 1
    /\ UNCHANGED <<max_queue_size, mutex, qpc, qframe, handed>>
    /\ UNCHANGED <<ledgerVars, threadVars, rwVars, consensusVars, executorVars, registryVars, healthVars, discoveryVars>>

GetNextTask ==
    /\ LET out == get_next_task(task_queue)
       IN  /\ task_queue' = out.queue
           /\ qret' = QCall("get_next_task", out.task, out.result, 0)
           /\ HandOut(out)
    /\ UNCHANGED <<max_queue_size, mutex, qpc, qframe, created, accepted>>
    /\ UNCHANGED <<ledgerVars, threadVars, rwVars, consensusVars, executorVars, registryVars, healthVars, discoveryVars>>

PendingTaskCount ==
    /\ qret' = QCall("pending_task_count", NoTask, "Ok",
                     pending_task_count(task_queue))
    /\ UNCHANGED <<task_queue, max_queue_size, mutex, qpc, qframe, created,
                   accepted, handed>>
    /\ UNCHANGED <<ledgerVars, threadVars, rwVars, consensusVars, executorVars, registryVars, healthVars, discoveryVars>>

\* The caller that was just handed a task puts it back.  TaskScheduler has
\* no requeue and Task no retry_count: the one way to put a task back is
\* schedule_task(task).  count: how often the task was put back before.
Requeue ==
    /\ qret.op = "get_next_task" /\ qret.result = "Some"
    /\ handed[qret.task.id] <= MaxRetries + 1
    /\ LET out == schedule_task(task_queue, max_queue_size, qret.task)
       IN  /\ task_queue' = out.queue
           /\ qret' = QCall("requeue", qret.task, out.result,
                            handed[qret.task.id] - 1)
    /\ UNCHANGED <<max_queue_size, mutex, qpc, qframe, created, accepted, handed>>
    /\ UNCHANGED <<ledgerVars, threadVars, rwVars, consensusVars, executorVars, registryVars, healthVars, discoveryVars>>

QueueNext ==
    \/ \E p \in Priorities : ScheduleTask(p)
    \/ GetNextTask
    \/ PendingTaskCount
    \/ Requeue

QueueSpec == QueueInit /\ [][QueueNext]_vars

(***************************************************************************)
(* TaskScheduler under concurrent callers: every handler starts with       *)
(* `self.task_queue.lock().unwrap()` and drops the guard when it returns.  *)
(* No statement under the guard panics, so the Mutex is never poisoned.    *)
(***************************************************************************)
\* Faulty variant of mutex_free: the guard is handed out while another is
\* held.
mutex_unguarded == TRUE

\* Mutex::lock() is granted when no guard is held.
mutex_free == mutex = NoThread

\* Thread t returns: its guard is dropped.
QReturn(t, task, result, count) ==
    /\ qpc' = [qpc EXCEPT ![t] = "idle"]
    /\ qframe' = [qframe EXCEPT ![t] = QCall(qframe[t].op, task, result, count)]
    /\ mutex' = IF mutex = t THEN NoThread ELSE mutex

\* Thread t gets the guard and goes on to `step` of handler `op`.
QEnter(t, op, task, step) ==
    /\ qpc[t] = "idle"
    /\ mutex_free
    /\ mutex' = t
    /\ qpc' = [qpc EXCEPT ![t] = step]
    /\ qframe' = [qframe EXCEPT ![t] = QCall(op, task, "none", 0)]

\* schedule_task, line 29: the call, with a new task, gets the guard.
LockSchedule(t, priority) ==
    /\ created < MaxTasks
    /\ QEnter(t, "schedule_task", Task(created + 1, priority), "sched_check")
    /\ created' = created + 1
    /\ UNCHANGED <<task_queue, max_queue_size, qret, accepted, handed>>
    /\ UNCHANGED <<ledgerVars, threadVars, rwVars, consensusVars, executorVars, registryVars, healthVars, discoveryVars>>

\* schedule_task, lines 30-32: the size test, Err when full.
SchedCheck(t) ==
    /\ qpc[t] = "sched_check"
    /\ IF is_full(task_queue, max_queue_size)
       THEN QReturn(t, qframe[t].task, "QueueFull", 0)
       ELSE /\ qpc' = [qpc EXCEPT ![t] = "sched_push"]
            /\ UNCHANGED <<qframe, mutex>>
    /\ UNCHANGED <<task_queue, max_queue_size, qret, created, accepted, handed>>
    /\ UNCHANGED <<ledgerVars, threadVars, rwVars, consensusVars, executorVars, registryVars, healthVars, discoveryVars>>

\* schedule_task, lines 33-34: push_back, Ok.
SchedPush(t) ==
    /\ qpc[t] = "sched_push"
    /\ task_queue' = push_back(task_queue, qframe[t].task)
    /\ accepted' = accepted \cup {qframe[t].task.id}
    /\ QReturn(t, qframe[t].task, "Ok", 0)
    /\ UNCHANGED <<max_queue_size, qret, created, handed>>
    /\ UNCHANGED <<ledgerVars, threadVars, rwVars, consensusVars, executorVars, registryVars, healthVars, discoveryVars>>

\* get_next_task, line 39: the call gets the guard.
LockNext(t) ==
    /\ QEnter(t, "get_next_task", NoTask, "next_front")
    /\ UNCHANGED <<task_queue, max_queue_size, qret, created, accepted, handed>>
    /\ UNCHANGED <<ledgerVars, threadVars, rwVars, consensusVars, executorVars, registryVars, healthVars, discoveryVars>>

\* get_next_task, line 40, pop_front's read: None when the queue is empty,
\* else the head is read.
NextFront(t) ==
    /\ qpc[t] = "next_front"
    /\ IF front(task_queue).result = "None"
       THEN QReturn(t, NoTask, "None", 0)
       ELSE /\ qpc' = [qpc EXCEPT ![t] = "next_drop"]
            /\ qframe' = [qframe EXCEPT ![t].task = front(task_queue).task]
            /\ UNCHANGED mutex
    /\ UNCHANGED <<task_queue, max_queue_size, qret, created, accepted, handed>>
    /\ UNCHANGED <<ledgerVars, threadVars, rwVars, consensusVars, executorVars, registryVars, healthVars, discoveryVars>>

\* get_next_task, line 40, pop_front's write: the head is dropped and the
\* task read is returned.
NextDrop(t) ==
    /\ qpc[t] = "next_drop"
    /\ task_queue' = drop_front(task_queue)
    /\ HandOut([result |-> "Some", task |-> qframe[t].task])
    /\ QReturn(t, qframe[t].task, "Some", 0)
    /\ UNCHANGED <<max_queue_size, qret, created, accepted>>
    /\ UNCHANGED <<ledgerVars, threadVars, rwVars, consensusVars, executorVars, registryVars, healthVars, discoveryVars>>

\* pending_task_count, line 45: the call gets the guard.
LockCount(t) ==
    /\ QEnter(t, "pending_task_count", NoTask, "count_len")
    /\ UNCHANGED <<task_queue, max_queue_size, qret, created, accepted, handed>>
    /\ UNCHANGED <<ledgerVars, threadVars, rwVars, consensusVars, executorVars, registryVars, healthVars, discoveryVars>>

\* pending_task_count, line 46: `queue.len()`.
CountLen(t) ==
    /\ qpc[t] = "count_len"
    /\ QReturn(t, NoTask, "Ok", pending_task_count(task_queue))
    /\ UNCHANGED <<task_queue, max_queue_size, qret, created, accepted, handed>>
    /\ UNCHANGED <<ledgerVars, threadVars, rwVars, consensusVars, executorVars, registryVars, healthVars, discoveryVars>>

QueueConcNext ==
    \/ \E t \in Threads, p \in Priorities : LockSchedule(t, p)
    \/ \E t \in Threads : SchedCheck(t)
    \/ \E t \in Threads : SchedPush(t)
    \/ \E t \in Threads : LockNext(t)
    \/ \E t \in Threads : NextFront(t)
    \/ \E t \in Threads : NextDrop(t)
    \/ \E t \in Threads : LockCount(t)
    \/ \E t \in Threads : CountLen(t)

QueueConcSpec == QueueInit /\ [][QueueConcNext]_vars

(***************************************************************************)
(* ConsensusEngine                                                         *)
(***************************************************************************)
\* The validator ids and block hashes (proposals) the callers use.
Validators == {"v1", "v2", "v3"}
Blocks == {"b1", "b2"}
\* enum ConsensusState
ConsensusStates == {"Idle", "Proposing", "Voting", "Finalizing", "Committed"}
\* The thresholds (in hundredths) the sequential engine is built with.
EngineThresholds == {20, 50, 67}

\* submit_vote, line 45: `votes.entry(block_hash).or_insert_with(Vec::new)`.
entry_or_insert(m, block_hash) ==
    IF block_hash \in DOMAIN m THEN m ELSE insert(m, block_hash, <<>>)

\* Faulty variant of already_voted: only the latest vote is compared.
already_voted_last(block_votes, validator_id) ==
    /\ Len(block_votes) > 0
    /\ block_votes[Len(block_votes)].validator_id = validator_id

\* submit_vote, line 48: `block_votes.iter().any(|v| v.validator_id == ..)`.
already_voted(block_votes, validator_id) ==
    \E i \in 1..Len(block_votes) : block_votes[i].validator_id = validator_id

\* submit_vote, line 52: `block_votes.push(vote)`.
push(m, vote) == [m EXCEPT ![vote.block_hash] = Append(@, vote)]

\* submit_vote: the whole handler.
submit_vote(m, vote) ==
    LET m1 == entry_or_insert(m, vote.block_hash)
    IN  IF already_voted(m1[vote.block_hash], vote.validator_id)
        THEN [result |-> "DuplicateVote", votes |-> m1]
        ELSE [result |-> "Ok", votes |-> push(m1, vote)]

\* Faulty variant of required_votes: the product is truncated, not ceiled.
required_votes_floor(count, t) ==
    LET x == f64_mul(count, t) IN x.hi \div (2^(x.exp - 26))

\* check_consensus, line 61:
\* `(self.validator_count as f64 * self.threshold).ceil()`.
required_votes(count, t) == f64_ceil(f64_mul(count, t))

\* check_consensus: the whole handler (vote_count and required_votes are
\* whole-numbered f64s, compared as such).
check_consensus(m, block_hash, count, t) ==
    IF block_hash \in DOMAIN m
    THEN Len(m[block_hash]) >= required_votes(count, t)
    ELSE FALSE

\* get_state
get_state(st) == st

\* set_state, line 76: `*state = new_state`.
set_state(st, new_state) == new_state

\* Faulty variant of reset: the votes are kept.
reset_state_only(m, st) == [votes |-> m, state |-> set_state(st, "Idle")]

\* reset: `votes.clear()`, then set_state(Idle).
reset(m, st) == [votes |-> <<>>, state |-> set_state(st, "Idle")]

\* ConsensusEngine::new(threshold, validator_count) for a pool of as many
\* validators as there are ids; the other components stay as built.
ConsensusInit ==
    /\ \E lit \in EngineThresholds : EngineNew(lit, Cardinality(Validators))
    /\ LedgerIdle /\ overflow_checks = FALSE
    /\ SchedulerIdle /\ max_queue_size = 0
    /\ ExecutorIdle /\ RegistryIdle /\ ReporterIdle /\ DiscoveryIdle

SubmitVote(validator_id, block_hash) ==
    /\ LET vote == Vote(validator_id, block_hash)
           out == submit_vote(votes, vote)
       IN  /\ votes' = out.votes
           /\ cret' = CCall("submit_vote", vote, "none", out.result)
           /\ cast' = cast \cup {vote}
    /\ UNCHANGED <<state, threshold, validator_count, votes_writer,
                   votes_readers, cpc, cframe>>
    /\ UNCHANGED <<ledgerVars, threadVars, rwVars, queueVars, executorVars, registryVars, healthVars, discoveryVars>>

CheckConsensus(block_hash) ==
    /\ cret' = CCall("check_consensus", Vote("none", block_hash), "none",
                     IF check_consensus(votes, block_hash, validator_count,
                                        threshold.f64)
                     THEN "true" ELSE "false")
    /\ UNCHANGED <<state, votes, threshold, validator_count, votes_writer,
                   votes_readers, cpc, cframe, cast>>
    /\ UNCHANGED <<ledgerVars, threadVars, rwVars, queueVars, executorVars, registryVars, healthVars, discoveryVars>>

GetState ==
    /\ cret' = CCall("get_state", NoVote, "none", get_state(state))
    /\ UNCHANGED <<state, votes, threshold, validator_count, votes_writer,
                   votes_readers, cpc, cframe, cast>>
    /\ UNCHANGED <<ledgerVars, threadVars, rwVars, queueVars, executorVars, registryVars, healthVars, discoveryVars>>

SetState(new_state) ==
    /\ state' = set_state(state, new_state)
    /\ cret' = CCall("set_state", NoVote, new_state, "Ok")
    /\ UNCHANGED <<votes, threshold, validator_count, votes_writer,
                   votes_readers, cpc, cframe, cast>>
    /\ UNCHANGED <<ledgerVars, threadVars, rwVars, queueVars, executorVars, registryVars, healthVars, discoveryVars>>

Reset ==
    /\ votes' = reset(votes, state).votes
    /\ state' = reset(votes, state).state
    /\ cret' = CCall("reset", NoVote, "none", "Ok")
    /\ cast' = {}
    /\ UNCHANGED <<threshold, validator_count, votes_writer, votes_readers,
                   cpc, cframe>>
    /\ UNCHANGED <<ledgerVars, threadVars, rwVars, queueVars, executorVars, registryVars, healthVars, discoveryVars>>

ConsensusNext ==
    \/ \E v \in Validators, b \in Blocks : SubmitVote(v, b)
    \/ \E b \in Blocks : CheckConsensus(b)
    \/ GetState
    \/ \E st \in ConsensusStates : SetState(st)
    \/ Reset

ConsensusSpec == ConsensusInit /\ [][ConsensusNext]_vars

\* ConsensusEngine::new(threshold, validator_count) for a validator set
\* smaller than the set of callers: the engine is given the set's size only,
\* and any caller can submit a Vote with any validator_id.
ConsensusOpenInit ==
    /\ \E lit \in EngineThresholds, count \in 1..(Cardinality(Validators) - 1) :
          EngineNew(lit, count)
    /\ LedgerIdle /\ overflow_checks = FALSE
    /\ SchedulerIdle /\ max_queue_size = 0
    /\ ExecutorIdle /\ RegistryIdle /\ ReporterIdle /\ DiscoveryIdle

ConsensusOpenSpec == ConsensusOpenInit /\ [][ConsensusNext]_vars

(***************************************************************************)
(* ConsensusEngine under concurrent voters and readers: submit_vote starts *)
(* with `self.votes.write().unwrap()`, check_consensus with                *)
(* `self.votes.read().unwrap()`, and each drops its guard when it returns. *)
(* No statement under a guard panics, so the lock is never poisoned.       *)
(***************************************************************************)
\* The validators that vote concurrently.
ConcValidators == {"v1", "v2"}

\* Faulty variant of votes_write_free: the write guard is handed out while
\* another guard is held.
votes_write_unguarded == TRUE

\* RwLock::write() is granted when no guard, write or read, is held.
votes_write_free == votes_writer = NoThread /\ votes_readers = {}

\* RwLock::read() is granted when no write guard is held.
votes_read_free == votes_writer = NoThread

\* ConsensusEngine::new(1.0, 2): both concurrent validators are needed.
ConsensusConcInit ==
    /\ EngineNew(100, Cardinality(ConcValidators))
    /\ LedgerIdle /\ overflow_checks = FALSE
    /\ SchedulerIdle /\ max_queue_size = 0
    /\ ExecutorIdle /\ RegistryIdle /\ ReporterIdle /\ DiscoveryIdle

\* Thread t returns `result`: its guard is dropped.
CReturn(t, result) ==
    /\ cpc' = [cpc EXCEPT ![t] = "idle"]
    /\ cframe' = [cframe EXCEPT ![t] = [IdleCFrame EXCEPT !.result = result]]
    /\ votes_writer' = IF votes_writer = t THEN NoThread ELSE votes_writer
    /\ votes_readers' = votes_readers \ {t}

\* submit_vote, line 44: the call gets the write guard.
VoteLock(t, validator_id, block_hash) ==
    /\ cpc[t] = "idle"
    /\ votes_write_free
    /\ votes_writer' = t
    /\ cpc' = [cpc EXCEPT ![t] = "vote_entry"]
    /\ cframe' = [cframe EXCEPT ![t] =
                     [op |-> "submit_vote", vote |-> Vote(validator_id, block_hash),
                      before |-> votes, result |-> "none"]]
    /\ UNCHANGED <<state, votes, threshold, validator_count, votes_readers,
                   cret, cast>>
    /\ UNCHANGED <<ledgerVars, threadVars, rwVars, queueVars, executorVars, registryVars, healthVars, discoveryVars>>

\* submit_vote, line 45: the proposal's Vec is looked up or created.
VoteEntry(t) ==
    /\ cpc[t] = "vote_entry"
    /\ votes' = entry_or_insert(votes, cframe[t].vote.block_hash)
    /\ cpc' = [cpc EXCEPT ![t] = "vote_check"]
    /\ UNCHANGED <<state, threshold, validator_count, votes_writer,
                   votes_readers, cframe, cret, cast>>
    /\ UNCHANGED <<ledgerVars, threadVars, rwVars, queueVars, executorVars, registryVars, healthVars, discoveryVars>>

\* submit_vote, lines 48-50: Err when the validator already voted.
VoteCheck(t) ==
    /\ cpc[t] = "vote_check"
    /\ IF already_voted(votes[cframe[t].vote.block_hash],
                        cframe[t].vote.validator_id)
       THEN CReturn(t, "DuplicateVote")
       ELSE /\ cpc' = [cpc EXCEPT ![t] = "vote_push"]
            /\ UNCHANGED <<cframe, votes_writer, votes_readers>>
    /\ UNCHANGED <<state, votes, threshold, validator_count, cret, cast>>
    /\ UNCHANGED <<ledgerVars, threadVars, rwVars, queueVars, executorVars, registryVars, healthVars, discoveryVars>>

\* submit_vote, lines 52-53: push, Ok.
VotePush(t) ==
    /\ cpc[t] = "vote_push"
    /\ votes' = push(votes, cframe[t].vote)
    /\ cast' = cast \cup {cframe[t].vote}
    /\ CReturn(t, "Ok")
    /\ UNCHANGED <<state, threshold, validator_count, cret>>
    /\ UNCHANGED <<ledgerVars, threadVars, rwVars, queueVars, executorVars, registryVars, healthVars, discoveryVars>>

\* check_consensus, line 58: the call gets a read guard.
CheckLock(t, block_hash) ==
    /\ cpc[t] = "idle"
    /\ votes_read_free
    /\ votes_readers' = votes_readers \cup {t}
    /\ cpc' = [cpc EXCEPT ![t] = "check_count"]
    /\ cframe' = [cframe EXCEPT ![t] =
                     [op |-> "check_consensus", vote |-> Vote("none", block_hash),
                      before |-> votes, result |-> "none"]]
    /\ UNCHANGED <<state, votes, threshold, validator_count, votes_writer,
                   cret, cast>>
    /\ UNCHANGED <<ledgerVars, threadVars, rwVars, queueVars, executorVars, registryVars, healthVars, discoveryVars>>

\* check_consensus, lines 59-65: the votes are counted and compared.
CheckCount(t) ==
    /\ cpc[t] = "check_count"
    /\ CReturn(t, IF check_consensus(votes, cframe[t].vote.block_hash,
                                     validator_count, threshold.f64)
                  THEN "true" ELSE "false")
    /\ UNCHANGED <<state, votes, threshold, validator_count, cret, cast>>
    /\ UNCHANGED <<ledgerVars, threadVars, rwVars, queueVars, executorVars, registryVars, healthVars, discoveryVars>>

ConsensusConcNext ==
    \/ \E t \in Threads, v \in ConcValidators, b \in Blocks : VoteLock(t, v, b)
    \/ \E t \in Threads : VoteEntry(t)
    \/ \E t \in Threads : VoteCheck(t)
    \/ \E t \in Threads : VotePush(t)
    \/ \E t \in Threads, b \in Blocks : CheckLock(t, b)
    \/ \E t \in Threads : CheckCount(t)

ConsensusConcSpec == ConsensusConcInit /\ [][ConsensusConcNext]_vars

(***************************************************************************)
(* The quorum arithmetic of check_consensus: engines built with each       *)
(* threshold and validator_count, whose validators vote on one proposal    *)
(* one after the other.                                                    *)
(***************************************************************************)
\* The thresholds (in hundredths) the engines are built with.
QuorumThresholds == {10, 20, 34, 50, 51, 60, 67, 75, 90, 100}
\* The ids of the validators of the pool, in the order they vote.
ValidatorIds == <<"v1", "v2", "v3", "v4", "v5", "v6", "v7", "v8", "v9", "v10",
                  "v11", "v12">>

\* ConsensusEngine::new(threshold, validator_count)
QuorumInit ==
    /\ \E lit \in QuorumThresholds, count \in 1..MaxValidatorCount :
          EngineNew(lit, count)
    /\ LedgerIdle /\ overflow_checks = FALSE
    /\ SchedulerIdle /\ max_queue_size = 0
    /\ ExecutorIdle /\ RegistryIdle /\ ReporterIdle /\ DiscoveryIdle

\* The next validator of the pool votes on b1, or the quorum is checked.
QuorumNext ==
    \/ \E k \in 1..validator_count :
          /\ Cardinality(cast) = k - 1
          /\ SubmitVote(ValidatorIds[k], "b1")
    \/ CheckConsensus("b1")

QuorumSpec == QuorumInit /\ [][QuorumNext]_vars

(***************************************************************************)
(* The task pipeline: callers submit tasks to the TaskScheduler, a thread  *)
(* builds the CoordinationEngine that is to drive them, and callers of the *)
(* TaskExecutor run execute_task.  Nothing in the repository calls         *)
(* get_next_task or execute_task: those calls are an outside caller's.     *)
(***************************************************************************)
\* enum TaskStatus
TaskStatuses == {"Pending", "Running", "Completed", "Failed", "Cancelled"}

\* CoordinationEngine::new, line 19: `unimplemented!(..)` panics; so does
\* coordinate_distributed_task, line 25, for which no engine can be built.
coordination_engine_new == [result |-> "Panic"]

\* execute_task, lines 53-56: `active.push(task_id.clone())`.
active_push(active, task_id) == Append(active, task_id)

\* execute_task, line 68: `active.retain(|id| id != &task_id)`.
active_retain(active, task_id) == SelectSeq(active, LAMBDA id : id # task_id)

\* execute_task, lines 75-81: the ExecutionResult's status.
execution_result_status == "Completed"

\* The thread that is to drive the pipeline builds the engine.
CoordinationEngineNew ==
    /\ coord = "idle"
    /\ coord' = IF coordination_engine_new.result = "Panic"
                THEN "panicked" ELSE "built"
    /\ UNCHANGED <<active_tasks, completed_count, epc, eframe, exec_status, eret>>
    /\ UNCHANGED <<ledgerVars, threadVars, rwVars, queueVars, consensusVars,
                   registryVars, healthVars, discoveryVars>>

\* Thread t calls execute_task with the id of a task taken from the queue;
\* lines 53-56: the id is added to the active list.
ExecStart(t, task_id) ==
    /\ epc[t] = "idle"
    /\ handed[task_id] >= 1
    /\ completed_count + Cardinality({u \in Threads : epc[u] # "idle"}) < MaxTasks
    /\ active_tasks' = active_push(active_tasks, task_id)
    /\ epc' = [epc EXCEPT ![t] = "exec_sleep"]
    /\ eframe' = [eframe EXCEPT ![t] = task_id]
    /\ UNCHANGED <<completed_count, exec_status, eret, coord>>
    /\ UNCHANGED <<ledgerVars, threadVars, rwVars, queueVars, consensusVars,
                   registryVars, healthVars, discoveryVars>>

\* execute_task, lines 58-63: `thread::sleep(..)` returns.
ExecSleep(t) ==
    /\ epc[t] = "exec_sleep"
    /\ epc' = [epc EXCEPT ![t] = "exec_finish"]
    /\ UNCHANGED <<active_tasks, completed_count, eframe, exec_status, eret, coord>>
    /\ UNCHANGED <<ledgerVars, threadVars, rwVars, queueVars, consensusVars,
                   registryVars, healthVars, discoveryVars>>

\* execute_task, lines 66-81: the id is removed from the active list, the
\* completed count incremented and the result returned.
ExecFinish(t) ==
    /\ epc[t] = "exec_finish"
    /\ active_tasks' = active_retain(active_tasks, eframe[t])
    /\ completed_count' = u64_add(completed_count, 1).value
    /\ exec_status' = [exec_status EXCEPT ![eframe[t]] = execution_result_status]
    /\ epc' = [epc EXCEPT ![t] = "idle"]
    /\ eframe' = [eframe EXCEPT ![t] = 0]
    /\ UNCHANGED <<eret, coord>>
    /\ UNCHANGED <<ledgerVars, threadVars, rwVars, queueVars, consensusVars,
                   registryVars, healthVars, discoveryVars>>

\* TaskScheduler::new(max_queue_size), TaskExecutor::new(config).
LiveInit == QueueInit

LiveNext ==
    \/ \E p \in Priorities : ScheduleTask(p)
    \/ GetNextTask
    \/ CoordinationEngineNew
    \/ \E t \in Threads, id \in 1..MaxTasks : ExecStart(t, id)
    \/ \E t \in Threads : ExecSleep(t)
    \/ \E t \in Threads : ExecFinish(t)

\* A thread inside a call goes on: the engine's construction is carried
\* out, a sleeping execute_task wakes up and finishes.  Callers from outside
\* (schedule_task, get_next_task, execute_task) are under no obligation.
LiveFairness ==
    /\ WF_vars(CoordinationEngineNew)
    /\ \A t \in Threads : WF_vars(ExecSleep(t)) /\ WF_vars(ExecFinish(t))

LiveSpec == LiveInit /\ [][LiveNext]_vars /\ LiveFairness

(***************************************************************************)
(* TaskExecutor with cancellation.  execute_task takes the active_tasks    *)
(* Mutex twice (to push, lines 53-56; to retain and count, lines 66-72)    *)
(* and cancel_task holds it for its whole body: each of the three is one   *)
(* step.  The tasks are those a caller took from the queue.                *)
(***************************************************************************)
\* cancel_task, line 87: `active.iter().position(|id| id == task_id)`, the
\* index of the first occurrence (0 for None; the model counts from 1).
position(active, task_id) ==
    IF \E i \in 1..Len(active) : active[i] = task_id
    THEN CHOOSE i \in 1..Len(active) :
            /\ active[i] = task_id
            /\ \A j \in 1..(i - 1) : active[j] # task_id
    ELSE 0

\* cancel_task, line 88: `active.remove(pos)`.
remove(active, pos) ==
    [i \in 1..(Len(active) - 1) |-> IF i < pos THEN active[i] ELSE active[i + 1]]

\* Faulty variant of cancel_task: the last entry goes when the id is not found.
cancel_task_pop(active, task_id) ==
    LET pos == position(active, task_id)
    IN  IF pos # 0
        THEN [active |-> remove(active, pos), result |-> "Ok"]
        ELSE [active |-> IF active = <<>> THEN active
                         ELSE remove(active, Len(active)),
              result |-> "TaskNotFound"]

\* cancel_task, lines 85-93.  TaskNotFound: Err("Task not found").
cancel_task(active, task_id) ==
    LET pos == position(active, task_id)
    IN  IF pos # 0
        THEN [active |-> remove(active, pos), result |-> "Ok"]
        ELSE [active |-> active, result |-> "TaskNotFound"]

\* A caller cancels task task_id.
CancelTask(task_id) ==
    /\ LET out == cancel_task(active_tasks, task_id)
       IN  /\ active_tasks' = out.active
           /\ eret' = ECall(task_id, out.result, active_tasks, completed_count)
    /\ UNCHANGED <<completed_count, epc, eframe, exec_status, coord>>
    /\ UNCHANGED <<ledgerVars, threadVars, rwVars, queueVars, consensusVars,
                   registryVars, healthVars, discoveryVars>>

\* TaskExecutor::new(config); the caller holds tasks 1..MaxTasks, each
\* submitted to a TaskScheduler::new(MaxQueueSize) and taken from it in turn.
ExecutorInit ==
    /\ ExecutorIdle /\ RegistryIdle /\ ReporterIdle /\ DiscoveryIdle
    /\ task_queue = <<>>
    /\ max_queue_size = MaxQueueSize
    /\ mutex = NoThread
    /\ qpc = [t \in Threads |-> "idle"]
    /\ qframe = [t \in Threads |-> QCall("none", NoTask, "none", 0)]
    /\ qret = QCall("get_next_task", Task(MaxTasks, 5), "Some", 0)
    /\ created = MaxTasks
    /\ accepted = 1..MaxTasks
    /\ handed = [i \in 1..MaxTasks |-> 1]
    /\ LedgerIdle /\ overflow_checks = FALSE
    /\ EngineIdle

ExecutorNext ==
    \/ \E t \in Threads, id \in 1..MaxExecTasks : ExecStart(t, id)
    \/ \E t \in Threads : ExecSleep(t)
    \/ \E t \in Threads : ExecFinish(t)
    \/ \E id \in 1..MaxExecTasks : CancelTask(id)

ExecutorSpec == ExecutorInit /\ [][ExecutorNext]_vars

(***************************************************************************)
(* ServiceRegistry, every handler one atomic action; the clock advances    *)
(* between the calls.                                                      *)
(***************************************************************************)
ServiceIds == {"s1", "s2"}
\* enum ServiceType: two of its values.
ServiceTypes == {"Worker", "Validator"}
Capabilities == {"gpu"}
\* Option<ServiceType>::None of a ServiceQuery.
AnyType == "None"

\* `index.entry(key).or_insert_with(HashSet::new).insert(id)`, lines 93-96
\* and 100-103.
index_insert(index, key, id) ==
    insert(index, key, (IF key \in DOMAIN index THEN index[key] ELSE {}) \cup {id})

\* Faulty variant of index_remove: the id stays in the set.
index_remove_nothing(index, key, id) == index

\* `if let Some(set) = index.get_mut(key) { set.remove(id); }`, lines
\* 118-120 and 124-126.
index_remove(index, key, id) ==
    IF key \in DOMAIN index THEN [index EXCEPT ![key] = @ \ {id}] ELSE index

\* register_service, lines 99-104: the loop over the capabilities.
RECURSIVE index_insert_all(_, _, _)
index_insert_all(index, keys, id) ==
    IF keys = {} THEN index
    ELSE LET key == CHOOSE k \in keys : TRUE
         IN  index_insert_all(index_insert(index, key, id), keys \ {key}, id)

\* deregister_service, lines 123-127: the loop over the capabilities.
RECURSIVE index_remove_all(_, _, _)
index_remove_all(index, keys, id) ==
    IF keys = {} THEN index
    ELSE LET key == CHOOSE k \in keys : TRUE
         IN  index_remove_all(index_remove(index, key, id), keys \ {key}, id)

\* The three maps of a registry.
Registry(s, si, ci) == [services |-> s, service_index |-> si, capability_index |-> ci]

\* register_service, lines 72-108; at: Instant::now().
register_service(reg, info, at) ==
    IF info.service_id \in DOMAIN reg.services
    THEN [result |-> "AlreadyRegistered", reg |-> reg]
    ELSE [result |-> "Ok",
          reg |-> Registry(
              insert(reg.services, info.service_id,
                     [info EXCEPT !.last_heartbeat = at]),
              index_insert(reg.service_index, info.service_type, info.service_id),
              index_insert_all(reg.capability_index, info.capabilities,
                               info.service_id))]

\* deregister_service, lines 111-133.
deregister_service(reg, service_id) ==
    IF service_id \in DOMAIN reg.services
    THEN LET info == reg.services[service_id]
         IN  [result |-> "Ok",
              reg |-> Registry(
                  [k \in DOMAIN reg.services \ {service_id} |-> reg.services[k]],
                  index_remove(reg.service_index, info.service_type, service_id),
                  index_remove_all(reg.capability_index, info.capabilities,
                                   service_id))]
    ELSE [result |-> "NotFound", reg |-> reg]

\* heartbeat, lines 136-146; at: Instant::now().
heartbeat(m, service_id, at) ==
    IF service_id \in DOMAIN m
    THEN [result |-> "Ok",
          services |-> [m EXCEPT ![service_id].last_heartbeat = at]]
    ELSE [result |-> "NotFound", services |-> m]

\* query_services, lines 149-188, for a query with a type (or None) and
\* capabilities, no version and no metadata filters.  The Vec returned is in
\* the map's iteration order: the model keeps its elements.
query_services(m, service_type, capabilities) ==
    {m[id] : id \in
        {k \in DOMAIN m :
            /\ (service_type # AnyType => m[k].service_type = service_type)
            /\ capabilities \subseteq m[k].capabilities}}

\* get_services_by_type, lines 197-209.
get_services_by_type(reg, service_type) ==
    IF service_type \in DOMAIN reg.service_index
    THEN {reg.services[id] :
            id \in reg.service_index[service_type] \cap DOMAIN reg.services}
    ELSE {}

\* cleanup_stale_services, lines 217-221: the ids to remove.
to_remove(m, at, timeout) ==
    {id \in DOMAIN m : at - m[id].last_heartbeat > timeout}

\* cleanup_stale_services, lines 225-227: the loop of deregister_service.
RECURSIVE deregister_all(_, _)
deregister_all(reg, ids) ==
    IF ids = {} THEN reg
    ELSE LET id == CHOOSE k \in ids : TRUE
         IN  deregister_all(deregister_service(reg, id).reg, ids \ {id})

\* cleanup_stale_services, lines 212-228; at: Instant::now().
cleanup_stale_services(reg, at, timeout) ==
    deregister_all(reg, to_remove(reg.services, at, timeout))

TheRegistry == Registry(services, service_index, capability_index)

SetRegistry(reg) ==
    /\ services' = reg.services
    /\ service_index' = reg.service_index
    /\ capability_index' = reg.capability_index

\* ServiceRegistry::new(Duration::from_secs(timeout)).
RegistryInit ==
    /\ \E timeout \in 1..MaxTimeout : RegistryNew(timeout)
    /\ LedgerIdle /\ overflow_checks = FALSE
    /\ SchedulerIdle /\ max_queue_size = 0
    /\ EngineIdle /\ ExecutorIdle /\ ReporterIdle /\ DiscoveryIdle

RegisterService(service_id, service_type, capabilities) ==
    /\ LET out == register_service(TheRegistry,
                      ServiceInfo(service_id, service_type, capabilities, now), now)
       IN  /\ SetRegistry(out.reg)
           /\ sret' = SCall("register_service", service_id, out.result, {}, now)
    /\ UNCHANGED <<heartbeat_timeout, now>>
    /\ UNCHANGED <<ledgerVars, threadVars, rwVars, queueVars, consensusVars,
                   executorVars, healthVars, registryLockVars,
                   discoveryVars>>

DeregisterService(service_id) ==
    /\ LET out == deregister_service(TheRegistry, service_id)
       IN  /\ SetRegistry(out.reg)
           /\ sret' = SCall("deregister_service", service_id, out.result, {}, now)
    /\ UNCHANGED <<heartbeat_timeout, now>>
    /\ UNCHANGED <<ledgerVars, threadVars, rwVars, queueVars, consensusVars,
                   executorVars, healthVars, registryLockVars,
                   discoveryVars>>

Heartbeat(service_id) ==
    /\ LET out == heartbeat(services, service_id, now)
       IN  /\ services' = out.services
           /\ sret' = SCall("heartbeat", service_id, out.result, {}, now)
    /\ UNCHANGED <<service_index, capability_index, heartbeat_timeout, now>>
    /\ UNCHANGED <<ledgerVars, threadVars, rwVars, queueVars, consensusVars,
                   executorVars, healthVars, registryLockVars,
                   discoveryVars>>

QueryServices(service_type, capabilities) ==
    /\ sret' = SCall("query_services", "none", "Ok",
                     query_services(services, service_type, capabilities), now)
    /\ UNCHANGED <<services, service_index, capability_index, heartbeat_timeout,
                   now>>
    /\ UNCHANGED <<ledgerVars, threadVars, rwVars, queueVars, consensusVars,
                   executorVars, healthVars, registryLockVars,
                   discoveryVars>>

GetServicesByType(service_type) ==
    /\ sret' = SCall("get_services_by_type", "none", "Ok",
                     get_services_by_type(TheRegistry, service_type), now)
    /\ UNCHANGED <<services, service_index, capability_index, heartbeat_timeout,
                   now>>
    /\ UNCHANGED <<ledgerVars, threadVars, rwVars, queueVars, consensusVars,
                   executorVars, healthVars, registryLockVars,
                   discoveryVars>>

CleanupStaleServices ==
    /\ SetRegistry(cleanup_stale_services(TheRegistry, now, heartbeat_timeout))
    /\ sret' = SCall("cleanup_stale_services", "none", "Ok", {}, now)
    /\ UNCHANGED <<heartbeat_timeout, now>>
    /\ UNCHANGED <<ledgerVars, threadVars, rwVars, queueVars, consensusVars,
                   executorVars, healthVars, registryLockVars,
                   discoveryVars>>

\* A second passes.
Tick ==
    /\ now < MaxTime
    /\ now' = now + 1
    /\ UNCHANGED <<services, service_index, capability_index, heartbeat_timeout,
                   sret>>
    /\ UNCHANGED <<ledgerVars, threadVars, rwVars, queueVars, consensusVars,
                   executorVars, healthVars, registryLockVars,
                   discoveryVars>>

RegistryNext ==
    \/ \E id \in ServiceIds, ty \in ServiceTypes, caps \in SUBSET Capabilities :
          RegisterService(id, ty, caps)
    \/ \E id \in ServiceIds : DeregisterService(id)
    \/ \E id \in ServiceIds : Heartbeat(id)
    \/ \E ty \in ServiceTypes \cup {AnyType}, caps \in SUBSET Capabilities :
          QueryServices(ty, caps)
    \/ \E ty \in ServiceTypes : GetServicesByType(ty)
    \/ CleanupStaleServices
    \/ Tick

RegistrySpec == RegistryInit /\ [][RegistryNext]_vars

(***************************************************************************)
(* ServiceRegistry under concurrent callers.  The three maps have an       *)
(* RwLock each; a handler is cut where it takes a lock, for there it can   *)
(* be made to wait.  Guards are dropped when the handler returns.          *)
(***************************************************************************)
ConcServiceIds == {"s1"}
ConcServiceTypes == {"Worker"}

\* `self.services.write()` is granted when no guard of services is held.
services_write_free == services_writer = NoThread /\ services_readers = {}
\* `self.services.read()` is granted when no write guard is held.
services_read_free == services_writer = NoThread
\* `self.service_index.write()` / `.read()`.
index_write_free == index_writer = NoThread /\ index_readers = {}
index_read_free == index_writer = NoThread
\* `self.capability_index.write()`.
capability_write_free == capability_writer = NoThread

\* Thread t's call returns `result` and its guards are dropped.  Inside
\* cleanup_stale_services the call is a deregister_service of the loop at
\* lines 225-227, whose result is dropped, and the loop goes on.
SReturn(t, result) ==
    /\ spc' = [spc EXCEPT ![t] =
                  IF sframe[t].op = "cleanup_stale_services"
                  THEN "cleanup_next" ELSE "idle"]
    /\ sframe' = [sframe EXCEPT ![t].result = result]
    /\ services_writer' = IF services_writer = t THEN NoThread ELSE services_writer
    /\ services_readers' = services_readers \ {t}
    /\ index_writer' = IF index_writer = t THEN NoThread ELSE index_writer
    /\ index_readers' = index_readers \ {t}
    /\ capability_writer' = IF capability_writer = t THEN NoThread
                            ELSE capability_writer

\* register_service, lines 73-89: the services write guard, the duplicate
\* test, the ServiceInfo with Instant::now().
SRegisterLock(t, service_id, service_type, capabilities) ==
    /\ spc[t] = "idle"
    /\ services_write_free
    /\ IF service_id \in DOMAIN services
       THEN /\ spc' = spc
            /\ sframe' = [sframe EXCEPT ![t] =
                  SFrame("register_service", service_id, NoInfo, {},
                         "AlreadyRegistered")]
            /\ UNCHANGED services_writer
       ELSE /\ spc' = [spc EXCEPT ![t] = "reg_index"]
            /\ sframe' = [sframe EXCEPT ![t] =
                  SFrame("register_service", service_id,
                         ServiceInfo(service_id, service_type, capabilities, now),
                         {}, "none")]
            /\ services_writer' = t
    /\ UNCHANGED <<services, service_index, capability_index, heartbeat_timeout,
                   now, sret, services_readers, index_writer, index_readers,
                   capability_writer>>
    /\ UNCHANGED <<ledgerVars, threadVars, rwVars, queueVars, consensusVars,
                   executorVars, healthVars, discoveryVars>>

\* register_service, lines 92-96: the service_index write guard, the insert.
SRegisterIndex(t) ==
    /\ spc[t] = "reg_index"
    /\ index_write_free
    /\ index_writer' = t
    /\ service_index' = index_insert(service_index, sframe[t].info.service_type,
                                     sframe[t].service_id)
    /\ spc' = [spc EXCEPT ![t] = "reg_caps"]
    /\ UNCHANGED <<services, capability_index, heartbeat_timeout, now, sret,
                   sframe, services_writer, services_readers, index_readers,
                   capability_writer>>
    /\ UNCHANGED <<ledgerVars, threadVars, rwVars, queueVars, consensusVars,
                   executorVars, healthVars, discoveryVars>>

\* register_service, lines 98-107: the capability_index write guard, the
\* inserts, `services.insert(..)`, Ok.
SRegisterCaps(t) ==
    /\ spc[t] = "reg_caps"
    /\ capability_write_free
    /\ capability_index' = index_insert_all(capability_index,
                                            sframe[t].info.capabilities,
                                            sframe[t].service_id)
    /\ services' = insert(services, sframe[t].service_id, sframe[t].info)
    /\ SReturn(t, "Ok")
    /\ UNCHANGED <<service_index, heartbeat_timeout, now, sret>>
    /\ UNCHANGED <<ledgerVars, threadVars, rwVars, queueVars, consensusVars,
                   executorVars, healthVars, discoveryVars>>

\* deregister_service, lines 112-115 and 131: the services write guard and
\* `services.remove(service_id)`; op is the call thread t is in, stale the
\* ids its cleanup pass has still to deregister.
DeregisterStart(t, op, service_id, stale) ==
    /\ services_write_free
    /\ IF service_id \in DOMAIN services
       THEN /\ services' = [k \in DOMAIN services \ {service_id} |-> services[k]]
            /\ services_writer' = t
            /\ spc' = [spc EXCEPT ![t] = "dereg_index"]
            /\ sframe' = [sframe EXCEPT ![t] =
                  SFrame(op, service_id, services[service_id], stale, "none")]
       ELSE /\ spc' = [spc EXCEPT ![t] =
                  IF op = "cleanup_stale_services" THEN "cleanup_next" ELSE "idle"]
            /\ sframe' = [sframe EXCEPT ![t] =
                  SFrame(op, service_id, NoInfo, stale, "NotFound")]
            /\ UNCHANGED <<services, services_writer>>
    /\ UNCHANGED <<service_index, capability_index, heartbeat_timeout, now, sret,
                   services_readers, index_writer, index_readers,
                   capability_writer>>
    /\ UNCHANGED <<ledgerVars, threadVars, rwVars, queueVars, consensusVars,
                   executorVars, healthVars, discoveryVars>>

\* Thread t calls deregister_service(service_id).
SDeregisterLock(t, service_id) ==
    /\ spc[t] = "idle"
    /\ DeregisterStart(t, "deregister_service", service_id, {})

\* deregister_service, lines 117-120: the service_index write guard, the
\* removal.
SDeregisterIndex(t) ==
    /\ spc[t] = "dereg_index"
    /\ index_write_free
    /\ index_writer' = t
    /\ service_index' = index_remove(service_index, sframe[t].info.service_type,
                                     sframe[t].service_id)
    /\ spc' = [spc EXCEPT ![t] = "dereg_caps"]
    /\ UNCHANGED <<services, capability_index, heartbeat_timeout, now, sret,
                   sframe, services_writer, services_readers, index_readers,
                   capability_writer>>
    /\ UNCHANGED <<ledgerVars, threadVars, rwVars, queueVars, consensusVars,
                   executorVars, healthVars, discoveryVars>>

\* deregister_service, lines 122-129: the capability_index write guard, the
\* removals, Ok.
SDeregisterCaps(t) ==
    /\ spc[t] = "dereg_caps"
    /\ capability_write_free
    /\ capability_index' = index_remove_all(capability_index,
                                            sframe[t].info.capabilities,
                                            sframe[t].service_id)
    /\ SReturn(t, "Ok")
    /\ UNCHANGED <<services, service_index, heartbeat_timeout, now, sret>>
    /\ UNCHANGED <<ledgerVars, threadVars, rwVars, queueVars, consensusVars,
                   executorVars, healthVars, discoveryVars>>

\* heartbeat, lines 136-146: one write guard of services, held throughout.
SHeartbeat(t, service_id) ==
    /\ spc[t] = "idle"
    /\ services_write_free
    /\ LET out == heartbeat(services, service_id, now)
       IN  /\ services' = out.services
           /\ sframe' = [sframe EXCEPT ![t] =
                 SFrame("heartbeat", service_id, NoInfo, {}, out.result)]
    /\ UNCHANGED <<service_index, capability_index, heartbeat_timeout, now, sret,
                   spc, services_writer, services_readers, index_writer,
                   index_readers, capability_writer>>
    /\ UNCHANGED <<ledgerVars, threadVars, rwVars, queueVars, consensusVars,
                   executorVars, healthVars, discoveryVars>>

\* query_services, lines 149-188: one read guard of services.
SQueryServices(t, service_type, capabilities) ==
    /\ spc[t] = "idle"
    /\ services_read_free
    /\ sframe' = [sframe EXCEPT ![t] =
          SFrame("query_services", "none", NoInfo, {}, "Ok")]
    /\ UNCHANGED <<services, service_index, capability_index, heartbeat_timeout,
                   now, sret, spc, services_writer, services_readers,
                   index_writer, index_readers, capability_writer>>
    /\ UNCHANGED <<ledgerVars, threadVars, rwVars, queueVars, consensusVars,
                   executorVars, healthVars, discoveryVars>>

\* get_service_types, lines 237-240: one read guard of service_index.
SGetServiceTypes(t) ==
    /\ spc[t] = "idle"
    /\ index_read_free
    /\ sframe' = [sframe EXCEPT ![t] =
          SFrame("get_service_types", "none", NoInfo, {}, "Ok")]
    /\ UNCHANGED <<services, service_index, capability_index, heartbeat_timeout,
                   now, sret, spc, services_writer, services_readers,
                   index_writer, index_readers, capability_writer>>
    /\ UNCHANGED <<ledgerVars, threadVars, rwVars, queueVars, consensusVars,
                   executorVars, healthVars, discoveryVars>>

\* get_services_by_type, line 198: the service_index read guard.
SByTypeLock(t, service_type) ==
    /\ spc[t] = "idle"
    /\ index_read_free
    /\ index_readers' = index_readers \cup {t}
    /\ spc' = [spc EXCEPT ![t] = "bytype_services"]
    /\ sframe' = [sframe EXCEPT ![t] =
          SFrame("get_services_by_type", "none",
                 ServiceInfo("none", service_type, {}, 0), {}, "none")]
    /\ UNCHANGED <<services, service_index, capability_index, heartbeat_timeout,
                   now, sret, services_writer, services_readers, index_writer,
                   capability_writer>>
    /\ UNCHANGED <<ledgerVars, threadVars, rwVars, queueVars, consensusVars,
                   executorVars, healthVars, discoveryVars>>

\* get_services_by_type, lines 199-208: the services read guard, the lookup.
SByTypeServices(t) ==
    /\ spc[t] = "bytype_services"
    /\ services_read_free
    /\ SReturn(t, "Ok")
    /\ UNCHANGED <<services, service_index, capability_index, heartbeat_timeout,
                   now, sret>>
    /\ UNCHANGED <<ledgerVars, threadVars, rwVars, queueVars, consensusVars,
                   executorVars, healthVars, discoveryVars>>

\* cleanup_stale_services, lines 213-223: Instant::now(), the services write
\* guard, the stale ids collected, the guard dropped.
SCleanupLock(t) ==
    /\ spc[t] = "idle"
    /\ services_write_free
    /\ spc' = [spc EXCEPT ![t] = "cleanup_next"]
    /\ sframe' = [sframe EXCEPT ![t] =
          SFrame("cleanup_stale_services", "none", NoInfo,
                 to_remove(services, now, heartbeat_timeout), "none")]
    /\ UNCHANGED <<services, service_index, capability_index, heartbeat_timeout,
                   now, sret, services_writer, services_readers, index_writer,
                   index_readers, capability_writer>>
    /\ UNCHANGED <<ledgerVars, threadVars, rwVars, queueVars, consensusVars,
                   executorVars, healthVars, discoveryVars>>

\* cleanup_stale_services, lines 225-227: the loop takes the next stale id
\* (in the order the map iterated) and calls deregister_service, or ends.
SCleanupNext(t) ==
    /\ spc[t] = "cleanup_next"
    /\ IF sframe[t].stale = {}
       THEN /\ spc' = [spc EXCEPT ![t] = "idle"]
            /\ sframe' = [sframe EXCEPT ![t].result = "Ok"]
            /\ UNCHANGED <<services, service_index, capability_index,
                           heartbeat_timeout, now, sret, services_writer,
                           services_readers, index_writer, index_readers,
                           capability_writer>>
            /\ UNCHANGED <<ledgerVars, threadVars, rwVars, queueVars,
                           consensusVars, executorVars, healthVars, discoveryVars>>
       ELSE \E id \in sframe[t].stale :
               DeregisterStart(t, "cleanup_stale_services", id,
                               sframe[t].stale \ {id})

\* A second passes while the threads are at work.
ConcTick ==
    /\ now < MaxTime
    /\ now' = now + 1
    /\ UNCHANGED <<services, service_index, capability_index, heartbeat_timeout,
                   sret, registryLockVars>>
    /\ UNCHANGED <<ledgerVars, threadVars, rwVars, queueVars, consensusVars,
                   executorVars, healthVars, discoveryVars>>

\* A step of a thread that is inside a call.
SStep(t) ==
    \/ SRegisterIndex(t)
    \/ SRegisterCaps(t)
    \/ SDeregisterIndex(t)
    \/ SDeregisterCaps(t)
    \/ SByTypeServices(t)
    \/ SCleanupNext(t)

RegistryConcNext ==
    \/ \E t \in Threads, id \in ConcServiceIds, ty \in ConcServiceTypes,
          caps \in SUBSET Capabilities : SRegisterLock(t, id, ty, caps)
    \/ \E t \in Threads, id \in ConcServiceIds : SDeregisterLock(t, id)
    \/ \E t \in Threads, id \in ConcServiceIds : SHeartbeat(t, id)
    \/ \E t \in Threads, ty \in ConcServiceTypes : SByTypeLock(t, ty)
    \/ \E t \in Threads, ty \in ConcServiceTypes \cup {AnyType},
          caps \in SUBSET Capabilities : SQueryServices(t, ty, caps)
    \/ \E t \in Threads : SGetServiceTypes(t)
    \/ \E t \in Threads : SCleanupLock(t)
    \/ \E t \in Threads : SStep(t)
    \/ ConcTick

RegistryConcSpec == RegistryInit /\ [][RegistryConcNext]_vars

(***************************************************************************)
(* HealthReporter, every handler one atomic action.  A component is a      *)
(* `dyn HealthCheckable`: its check_health may return any status.          *)
(***************************************************************************)
ComponentNames == {"c1", "c2"}
\* enum HealthStatus
HealthStatuses == {"Healthy", "Degraded", "Unhealthy", "Unknown"}

\* register_component, lines 59-62.
register_component(comps, name) == comps \cup {name}

\* run_health_checks, lines 65-73; checks: what check_health returned for
\* each registered component.
run_health_checks(results, checks) ==
    [n \in DOMAIN results \cup DOMAIN checks |->
        IF n \in DOMAIN checks THEN checks[n] ELSE results[n]]

\* calculate_overall_status, lines 92-112.
calculate_overall_status(results) ==
    IF DOMAIN results = {} THEN "Unknown"
    ELSE IF \E n \in DOMAIN results : results[n] = "Unhealthy" THEN "Unhealthy"
    ELSE IF \E n \in DOMAIN results : results[n] = "Degraded" THEN "Degraded"
    ELSE "Healthy"

\* get_health_report, lines 76-89: timestamp and uptime are not modelled.
get_health_report(results) ==
    [overall_status |-> calculate_overall_status(results),
     component_results |-> results]

\* get_component_health, lines 115-118; "None" for Option::None.
get_component_health(results, name) ==
    IF name \in DOMAIN results THEN results[name] ELSE "None"

\* is_healthy, lines 121-124.
is_healthy(results) == get_health_report(results).overall_status = "Healthy"

\* HealthReporter::new(check_interval).
ReporterInit ==
    /\ ReporterIdle /\ DiscoveryIdle
    /\ LedgerIdle /\ overflow_checks = FALSE
    /\ SchedulerIdle /\ max_queue_size = 0
    /\ EngineIdle /\ ExecutorIdle /\ RegistryIdle

RegisterComponent(name) ==
    /\ components' = register_component(components, name)
    /\ hret' = HCall("register_component", name, "none", FALSE)
    /\ UNCHANGED check_results
    /\ UNCHANGED <<ledgerVars, threadVars, rwVars, queueVars, consensusVars,
                   executorVars, registryVars,
                   discoveryVars>>

RunHealthChecks ==
    /\ \E checks \in [components -> HealthStatuses] :
          check_results' = run_health_checks(check_results, checks)
    /\ hret' = HCall("run_health_checks", "none", "none", FALSE)
    /\ UNCHANGED components
    /\ UNCHANGED <<ledgerVars, threadVars, rwVars, queueVars, consensusVars,
                   executorVars, registryVars,
                   discoveryVars>>

GetHealthReport ==
    /\ hret' = HCall("get_health_report", "none",
                     get_health_report(check_results).overall_status, FALSE)
    /\ UNCHANGED <<components, check_results>>
    /\ UNCHANGED <<ledgerVars, threadVars, rwVars, queueVars, consensusVars,
                   executorVars, registryVars,
                   discoveryVars>>

GetComponentHealth(name) ==
    /\ hret' = HCall("get_component_health", name,
                     get_component_health(check_results, name), FALSE)
    /\ UNCHANGED <<components, check_results>>
    /\ UNCHANGED <<ledgerVars, threadVars, rwVars, queueVars, consensusVars,
                   executorVars, registryVars,
                   discoveryVars>>

IsHealthy ==
    /\ hret' = HCall("is_healthy", "none",
                     get_health_report(check_results).overall_status,
                     is_healthy(check_results))
    /\ UNCHANGED <<components, check_results>>
    /\ UNCHANGED <<ledgerVars, threadVars, rwVars, queueVars, consensusVars,
                   executorVars, registryVars,
                   discoveryVars>>

ReporterNext ==
    \/ \E name \in ComponentNames : RegisterComponent(name)
    \/ RunHealthChecks
    \/ GetHealthReport
    \/ \E name \in ComponentNames : GetComponentHealth(name)
    \/ IsHealthy

ReporterSpec == ReporterInit /\ [][ReporterNext]_vars

(***************************************************************************)
(* NetworkTopology.  add_node, remove_node and is_connected hold the nodes *)
(* guard from their first line to their last and are one step each;        *)
(* add_edge drops the guard twice (lines 106 and 117) and is three steps,  *)
(* between which other threads run.                                        *)
(***************************************************************************)
NodeIds == {"n1", "n2"}
Regions == {"eu"}
\* Edges stored at once.
MaxEdges == 2

\* NetworkNode, lines 6-12: the fields the handlers read.
NetworkNode(node_id, region, connections) ==
    [node_id |-> node_id, region |-> region, connections |-> connections]

\* add_node, lines 68-80.
add_node(ns, rs, node) ==
    IF node.node_id \in DOMAIN ns
    THEN [nodes |-> ns, regions |-> rs, result |-> "Node already exists"]
    ELSE [nodes |-> insert(ns, node.node_id, node),
          regions |-> rs \cup {node.region}, result |-> "Ok"]

\* `edges.retain(|edge| edge.from_node != node_id && edge.to_node != node_id)`,
\* line 91.
retain_edges(es, node_id) ==
    SelectSeq(es, LAMBDA e : e.from_node # node_id /\ e.to_node # node_id)

\* remove_node, lines 83-94.
remove_node(ns, es, node_id) ==
    IF node_id \notin DOMAIN ns
    THEN [nodes |-> ns, edges |-> es, result |-> "Node not found"]
    ELSE [nodes |-> [k \in DOMAIN ns \ {node_id} |-> ns[k]],
          edges |-> retain_edges(es, node_id), result |-> "Ok"]

\* `if let Some(n) = nodes.get_mut(id) { n.connections.insert(other) }`,
\* lines 109-115.
connect(ns, id, other) ==
    IF id \in DOMAIN ns
    THEN [ns EXCEPT ![id].connections = @ \cup {other}]
    ELSE ns

\* is_connected, lines 198-206.
is_connected(ns) ==
    IF DOMAIN ns = {} THEN TRUE
    ELSE \A id \in DOMAIN ns : ns[id].connections # {}

TopologyInit ==
    /\ TopologyIdle /\ PeerIdle
    /\ LedgerIdle /\ overflow_checks = FALSE /\ SchedulerIdle /\ max_queue_size = 0
    /\ EngineIdle /\ ExecutorIdle /\ RegistryIdle /\ ReporterIdle

\* A caller adds a node that has no connections yet.
AddNode(node_id, region) ==
    /\ LET out == add_node(nodes, regions, NetworkNode(node_id, region, {}))
       IN  /\ nodes' = out.nodes
           /\ regions' = out.regions
           /\ tret' = TCall("add_node", node_id, out.result)
    /\ UNCHANGED <<edges, tpc, tframe>>
    /\ UNCHANGED <<coreVars, peerVars>>

RemoveNode(node_id) ==
    /\ LET out == remove_node(nodes, edges, node_id)
       IN  /\ nodes' = out.nodes
           /\ edges' = out.edges
           /\ tret' = TCall("remove_node", node_id, out.result)
    /\ UNCHANGED <<regions, tpc, tframe>>
    /\ UNCHANGED <<coreVars, peerVars>>

\* add_edge, lines 98-103: under the read guard, both nodes must exist.
AddEdgeCheck(t, edge) ==
    /\ tpc[t] = "idle"
    /\ Len(edges) + Cardinality({u \in Threads : tpc[u] # "idle"}) < MaxEdges
    /\ IF edge.from_node \notin DOMAIN nodes \/ edge.to_node \notin DOMAIN nodes
       THEN /\ tret' = TCall("add_edge", edge.from_node, "One or both nodes not found")
            /\ UNCHANGED <<tpc, tframe>>
       ELSE /\ tpc' = [tpc EXCEPT ![t] = "connect"]
            /\ tframe' = [tframe EXCEPT ![t] = edge]
            /\ UNCHANGED tret
    /\ UNCHANGED <<nodes, edges, regions>>
    /\ UNCHANGED <<coreVars, peerVars>>

\* add_edge, lines 106-117: under the write guard taken anew, each endpoint
\* still in the map gets the other in its connections.
AddEdgeConnect(t) ==
    /\ tpc[t] = "connect"
    /\ nodes' = connect(connect(nodes, tframe[t].from_node, tframe[t].to_node),
                        tframe[t].to_node, tframe[t].from_node)
    /\ tpc' = [tpc EXCEPT ![t] = "push"]
    /\ UNCHANGED <<edges, regions, tframe, tret>>
    /\ UNCHANGED <<coreVars, peerVars>>

\* add_edge, lines 119-122: the edge is pushed, Ok.
AddEdgePush(t) ==
    /\ tpc[t] = "push"
    /\ edges' = Append(edges, tframe[t])
    /\ tpc' = [tpc EXCEPT ![t] = "idle"]
    /\ tframe' = [tframe EXCEPT ![t] = NoEdge]
    /\ tret' = TCall("add_edge", tframe[t].from_node, "Ok")
    /\ UNCHANGED <<nodes, regions>>
    /\ UNCHANGED <<coreVars, peerVars>>

IsConnected ==
    /\ tret' = TCall("is_connected", "none", is_connected(nodes))
    /\ UNCHANGED <<nodes, edges, regions, tpc, tframe>>
    /\ UNCHANGED <<coreVars, peerVars>>

TopologyNext ==
    \/ \E id \in NodeIds, r \in Regions : AddNode(id, r)
    \/ \E id \in NodeIds : RemoveNode(id)
    \/ \E t \in Threads, a \in NodeIds, b \in NodeIds :
          AddEdgeCheck(t, NetworkEdge(a, b))
    \/ \E t \in Threads : AddEdgeConnect(t)
    \/ \E t \in Threads : AddEdgePush(t)
    \/ IsConnected

TopologySpec == TopologyInit /\ [][TopologyNext]_vars

(***************************************************************************)
(* PeerDiscovery.  start_discovery holds the discovery_enabled guard from  *)
(* its first line to its last, so the handlers are one step each.          *)
(***************************************************************************)
DiscoveryProtocols == {"Bootstrap", "DHT"}
\* Protocols a configuration lists, its max_peers, its bootstrap nodes.
MaxProtocols == 2
MaxPeers == 2
MaxBootstrap == 2
\* Peer ids are a name and a number: the peers that callers add themselves,
\* and `format!("bootstrap-{}", i)` of line 100, where i counts from 0.
PeerIds == {<<"peer", 1>>, <<"peer", 2>>}
bootstrap_id(i) == <<"bootstrap", i>>

\* add_peer, lines 113-122: the limit is tested before the insert.
add_peer(peers, max_peers, peer_id) ==
    IF Cardinality(peers) >= max_peers
    THEN [peers |-> peers, result |-> "Maximum peer limit reached"]
    ELSE [peers |-> peers \cup {peer_id}, result |-> "Ok"]

\* remove_peer, lines 125-131.
remove_peer(peers, peer_id) ==
    IF peer_id \notin peers
    THEN [peers |-> peers, result |-> "Peer not found"]
    ELSE [peers |-> peers \ {peer_id}, result |-> "Ok"]

\* discover_from_bootstrap, lines 97-110, from bootstrap node i on: the
\* first add_peer that fails ends the loop with its error.
RECURSIVE discover_from_bootstrap(_, _, _, _)
discover_from_bootstrap(peers, max_peers, bootstrap_nodes, i) ==
    IF i >= bootstrap_nodes
    THEN [peers |-> peers, result |-> "Ok"]
    ELSE LET out == add_peer(peers, max_peers, bootstrap_id(i))
         IN  IF out.result # "Ok" THEN out
             ELSE discover_from_bootstrap(out.peers, max_peers,
                                          bootstrap_nodes, i + 1)

\* start_protocol, lines 81-94.
start_protocol(active, peers, cfg, protocol) ==
    IF protocol \in active
    THEN [active |-> active, peers |-> peers, result |-> "Protocol already active"]
    ELSE IF protocol = "Bootstrap"
         THEN LET out == discover_from_bootstrap(peers, cfg.max_peers,
                                                 cfg.bootstrap_nodes, 0)
              IN  [active |-> active \cup {protocol}, peers |-> out.peers,
                   result |-> out.result]
         ELSE [active |-> active \cup {protocol}, peers |-> peers,
               result |-> "Ok"]

\* `for protocol in &self.config.protocols { self.start_protocol(..)?; }`,
\* lines 64-66, from protocol i on.
RECURSIVE start_protocols(_, _, _, _)
start_protocols(active, peers, cfg, i) ==
    IF i > Len(cfg.protocols)
    THEN [active |-> active, peers |-> peers, result |-> "Ok"]
    ELSE LET out == start_protocol(active, peers, cfg, cfg.protocols[i])
         IN  IF out.result # "Ok" THEN out
             ELSE start_protocols(out.active, out.peers, cfg, i + 1)

\* start_discovery, lines 56-69.
start_discovery(enabled, active, peers, cfg) ==
    IF enabled
    THEN [enabled |-> enabled, active |-> active, peers |-> peers,
          result |-> "Discovery already running"]
    ELSE LET out == start_protocols(active, peers, cfg, 1)
         IN  [enabled |-> TRUE, active |-> out.active, peers |-> out.peers,
              result |-> out.result]

\* The configurations: up to MaxProtocols protocols in any order, a protocol
\* listed twice included.
DiscoveryConfigs ==
    { DiscoveryConfig(ps, m, b) :
        ps \in UNION { [1..n -> DiscoveryProtocols] : n \in 0..MaxProtocols },
        m \in 0..MaxPeers, b \in 0..MaxBootstrap }

PeerInit ==
    /\ \E cfg \in DiscoveryConfigs : PeerDiscoveryNew(cfg)
    /\ TopologyIdle
    /\ LedgerIdle /\ overflow_checks = FALSE /\ SchedulerIdle /\ max_queue_size = 0
    /\ EngineIdle /\ ExecutorIdle /\ RegistryIdle /\ ReporterIdle

StartDiscovery ==
    /\ LET out == start_discovery(discovery_enabled, active_discoveries,
                                  known_peers, config)
       IN  /\ discovery_enabled' = out.enabled
           /\ active_discoveries' = out.active
           /\ known_peers' = out.peers
           /\ pret' = PCall("start_discovery", out.result)
    /\ UNCHANGED config
    /\ UNCHANGED <<coreVars, topologyVars>>

\* stop_discovery, lines 72-78.
StopDiscovery ==
    /\ discovery_enabled' = FALSE
    /\ active_discoveries' = {}
    /\ pret' = PCall("stop_discovery", "Ok")
    /\ UNCHANGED <<config, known_peers>>
    /\ UNCHANGED <<coreVars, topologyVars>>

AddPeer(peer_id) ==
    /\ LET out == add_peer(known_peers, config.max_peers, peer_id)
       IN  /\ known_peers' = out.peers
           /\ pret' = PCall("add_peer", out.result)
    /\ UNCHANGED <<config, active_discoveries, discovery_enabled>>
    /\ UNCHANGED <<coreVars, topologyVars>>

RemovePeer(peer_id) ==
    /\ LET out == remove_peer(known_peers, peer_id)
       IN  /\ known_peers' = out.peers
           /\ pret' = PCall("remove_peer", out.result)
    /\ UNCHANGED <<config, active_discoveries, discovery_enabled>>
    /\ UNCHANGED <<coreVars, topologyVars>>

\* is_discovering, lines 179-181.
IsDiscovering ==
    /\ pret' = PCall("is_discovering", discovery_enabled)
    /\ UNCHANGED <<config, known_peers, active_discoveries, discovery_enabled>>
    /\ UNCHANGED <<coreVars, topologyVars>>

PeerNext ==
    \/ StartDiscovery
    \/ StopDiscovery
    \/ \E id \in PeerIds : AddPeer(id)
    \/ \E id \in PeerIds : RemovePeer(id)
    \/ IsDiscovering

PeerSpec == PeerInit /\ [][PeerNext]_vars

(***************************************************************************)
(* Claims about the ledger, checked under Spec.                            *)
(***************************************************************************)
RECURSIVE SumAmounts(_, _)
SumAmounts(B, S) ==
    IF S = {} THEN 0
    ELSE LET e == CHOOSE x \in S : TRUE
         IN  e.amount * CopiesIn(e, B) + SumAmounts(B, S \ {e})

\* The sum of the amounts of the active reservations against resource id.
ReservedSum(id) ==
    SumAmounts(reservations, {e \in BagToSet(reservations) : e.rid = id})

\* C1: for every registered resource, available plus the sum of the active
\* reservations equals capacity, in every reachable state.
C1_LedgerBalance ==
    \A id \in DOMAIN resources :
        resources[id].available + ReservedSum(id) = resources[id].capacity

\* C2: for every registered resource 0 <= available <= capacity, whatever
\* Resource register_resource accepted and whatever amounts were allocated
\* and released since.
C2_AvailableWithinCapacity ==
    \A id \in DOMAIN resources :
        /\ 0 <= resources[id].available
        /\ resources[id].available <= resources[id].capacity

\* C4: an allocate of more than is available returns InsufficientResources
\* and changes no resource (and grants no reservation), every time it is
\* called.
C4_FailedAllocateChangesNothing ==
    [][(/\ ret'.op = "allocate"
        /\ ~poisoned
        /\ ret'.rid \in DOMAIN resources
        /\ resources[ret'.rid].available < ret'.amount)
       => (/\ ret'.result = "InsufficientResources"
           /\ resources' = resources
           /\ reservations' = reservations)]_vars

\* C4 witness: capacity 5, available 2, a request of 4 was refused and
\* available is still 2.
C4_Witness ==
    /\ ret.op = "allocate" /\ ret.amount = 4
    /\ ret.result = "InsufficientResources"
    /\ ret.before = 2
    /\ "r1" \in DOMAIN resources
    /\ resources["r1"] = Resource(5, 2)

\* C5: releasing the same reservation a second time succeeds and leaves
\* available exactly as the first release left it.
C5_ReleaseIdempotent ==
    [][ret'.op = "release_again"
       => (ret'.result = "Ok" /\ resources' = resources)]_vars

\* C6: releasing the reservation that was just granted, with no call in
\* between, restores available to its value before the reservation.
C6_ReserveReleaseRestores ==
    [][(/\ ret.op = "allocate" /\ ret.result = "Ok"
        /\ ret'.op = "release"
        /\ ret'.rid = ret.rid /\ ret'.amount = ret.amount)
       => (/\ ret'.result = "Ok"
           /\ resources'[ret.rid].available = ret.before)]_vars

(***************************************************************************)
(* Claims about the ledger's locking, checked under LedgerConcSpec.        *)
(***************************************************************************)
\* C3: allocate and release on a resource are each one atomic
\* read-modify-write.  Between an allocate's sufficiency check and its
\* decrement no other call changes the resource (the check still holds at
\* the decrement, so available cannot underflow); between a release's read
\* and its write the value read is still current; and the amount granted
\* since a resource was registered or last released to never exceeds what
\* was available then.
C3_AllocateReleaseAtomic ==
    /\ \A t \in Threads :
          pc[t] = "alloc_sub" =>
             /\ frame[t].rid \in DOMAIN resources
             /\ ~allocate_insufficient(resources[frame[t].rid], frame[t].amount)
    /\ \A t \in Threads :
          pc[t] = "rel_min" =>
             frame[t].tmp = release_add(resources[frame[t].rid], frame[t].amount).value
    /\ \A id \in DOMAIN resources :
          /\ granted[id] <= base[id]
          /\ resources[id].available = base[id] - granted[id]

\* C3 witness: one thread has passed allocate's check for the last unit of a
\* resource and has not decremented yet, the other thread has had a unit of
\* the same resource granted before, and its next allocate or release has to
\* wait for the lock.
C3_Witness ==
    \E t \in Threads, u \in Threads :
        /\ t # u
        /\ pc[t] = "alloc_sub" /\ frame[t].amount = 1
        /\ resources[frame[t].rid].available = 1
        /\ granted[frame[t].rid] = 0
        /\ pc[u] = "idle" /\ frame[u].result = "Ok"
        /\ ~ENABLED LockWrite(u, "allocate", frame[t].rid, 1, 0)
        /\ ~ENABLED LockWrite(u, "release", frame[t].rid, 1, 0)

(***************************************************************************)
(* Claims about the task queue, checked under QueueSpec.                   *)
(***************************************************************************)
\* Task a is dequeued before task b: higher priority first, and the one
\* submitted earlier (the smaller id) first among equal priorities.
Before(a, b) ==
    \/ a.priority > b.priority
    \/ a.priority = b.priority /\ a.id <= b.id

\* C7: get_next_task returns the queued task of highest priority, and among
\* those of equal priority the one submitted earliest.
C7_NextIsHighestPriorityFifo ==
    [][(qret'.op = "get_next_task" /\ Len(task_queue) > 0)
       => (/\ qret'.result = "Some"
           /\ \A i \in 1..Len(task_queue) : Before(qret'.task, task_queue[i]))]_vars

\* C9: schedule_task on a full queue returns QueueFull and leaves the queue,
\* its contents and their order, unchanged; the task is not accepted.
C9_FullQueueRejectsUnchanged ==
    [][(qret'.op = "schedule_task" /\ created' = created + 1
        /\ Len(task_queue) >= max_queue_size)
       => (/\ qret'.result = "QueueFull"
           /\ task_queue' = task_queue
           /\ accepted' = accepted)]_vars

\* C9 witness: a queue of capacity 2 holding two tasks has refused a third.
C9_Witness ==
    /\ max_queue_size = 2
    /\ Len(task_queue) = 2
    /\ qret.op = "schedule_task" /\ qret.result = "QueueFull"
    /\ qret.task.id = 3

\* C11: a task that is put back (requeue) is reinserted at the front of its
\* priority band: after the call it stands before every other queued task of
\* the same priority, those submitted earlier included.
C11_RequeueFrontOfBand ==
    [][(qret'.op = "requeue" /\ qret'.result = "Ok")
       => \E k \in 1..Len(task_queue') :
             /\ task_queue'[k] = qret'.task
             /\ \A i \in 1..Len(task_queue') :
                   task_queue'[i].priority = qret'.task.priority => k <= i]_vars

\* C12: putting back a task that was already put back MaxRetries times
\* returns MaxRetriesExceeded and leaves the queue unchanged, and
\* get_next_task never returns that task again.
C12_ExhaustedRequeueRejected ==
    [][/\ ((qret'.op = "requeue" /\ qret'.count >= MaxRetries)
           => (qret'.result = "MaxRetriesExceeded" /\ task_queue' = task_queue))
       /\ ((qret'.op = "get_next_task" /\ qret'.result = "Some")
           => handed'[qret'.task.id] <= MaxRetries + 1)]_vars

(***************************************************************************)
(* Claims about the task queue's locking, checked under QueueConcSpec.     *)
(***************************************************************************)
\* C8: the number of queued tasks never exceeds max_queue_size, under every
\* interleaving of concurrent schedule_task and get_next_task calls.
C8_QueueWithinCapacity == Len(task_queue) <= max_queue_size

\* C8 witness: the queue is one short of full, one thread has passed the
\* size test and not pushed yet, and the other thread has a call to make.
C8_Witness ==
    \E t \in Threads, u \in Threads :
        /\ t # u
        /\ max_queue_size >= 2
        /\ Len(task_queue) = max_queue_size - 1
        /\ qpc[t] = "sched_push"
        /\ qpc[u] = "idle" /\ qframe[u].result = "Ok"
        /\ created < MaxTasks
        /\ ~ENABLED LockSchedule(u, 8)

\* The number of times task id is in the queue.
InQueue(id) == Cardinality({i \in 1..Len(task_queue) : task_queue[i].id = id})

\* C10: every task schedule_task accepted is either still queued, once, or
\* has been returned by get_next_task, once: none is returned to two
\* callers and none is lost; a task that was not accepted is never returned.
C10_HandedOutExactlyOnce ==
    \A id \in 1..MaxTasks :
        IF id \in accepted
        THEN InQueue(id) + handed[id] = 1
        ELSE InQueue(id) = 0 /\ handed[id] = 0

\* C10 witness: two tasks were accepted; one thread has been handed the
\* first and the other thread is in the middle of taking the second.
C10_Witness ==
    \E t \in Threads, u \in Threads :
        /\ t # u
        /\ qpc[t] = "idle" /\ qframe[t].op = "get_next_task"
        /\ qframe[t].result = "Some" /\ qframe[t].task.id = 1
        /\ qpc[u] = "next_drop" /\ qframe[u].task.id = 2
        /\ handed[1] = 1 /\ handed[2] = 0

(***************************************************************************)
(* Claims about the quorum, checked under ConsensusSpec.  A proposal is a  *)
(* block hash; the spec's Proposed is the code's Proposing.                *)
(***************************************************************************)
\* The terminal states of the spec's state machine (of these the code's
\* ConsensusState has Committed only).
Terminal == {"Committed", "Rejected", "TimedOut"}

\* The commit condition of proposal b.
CommitCondition(b) == check_consensus(votes, b, validator_count, threshold.f64)

\* C15: once the consensus state is terminal it never changes again, and a
\* vote submitted afterwards is accepted without error and changes neither
\* the recorded votes nor the outcome.
C15_TerminalIsFinal ==
    [][(state \in Terminal)
       => (/\ state' = state
           /\ votes' = votes
           /\ (cret'.op = "submit_vote" => cret'.result = "Ok"))]_vars

(***************************************************************************)
(* Claims about the quorum's locking, checked under ConsensusConcSpec.     *)
(***************************************************************************)
\* No validator has two recorded votes on one proposal in the map m.
OneVoteEach(m) ==
    \A b \in DOMAIN m : \A i \in 1..Len(m[b]), j \in 1..Len(m[b]) :
        m[b][i].validator_id = m[b][j].validator_id => i = j

\* C13: each validator has at most one recorded vote per proposal, however
\* the concurrent submit_vote calls interleave, and a submit_vote that
\* returns DuplicateVote leaves the votes as they were when it was called.
C13_DuplicateVoteRejected ==
    [][/\ OneVoteEach(votes')
       /\ \A t \in Threads :
             (cpc[t] = "vote_check" /\ cpc'[t] = "idle")
                => (/\ cframe'[t].result = "DuplicateVote"
                    /\ votes' = cframe[t].before
                    /\ cframe[t].vote \in
                          {votes'[cframe[t].vote.block_hash][i] :
                             i \in 1..Len(votes'[cframe[t].vote.block_hash])})]_vars

\* C13 witness: v1's vote on b1 is recorded, a second submit_vote of v1 on
\* b1 has just returned DuplicateVote, and the other thread is in the middle
\* of a submit_vote on b1 (so that a further call has to wait).
C13_Witness ==
    \E t \in Threads, u \in Threads :
        /\ t # u
        /\ cpc[t] = "idle" /\ cframe[t].result = "DuplicateVote"
        /\ "b1" \in DOMAIN votes
        /\ votes["b1"] = <<Vote("v1", "b1")>>
        /\ cpc[u] = "vote_push" /\ cframe[u].vote = Vote("v2", "b1")
        /\ ~ENABLED VoteLock(t, "v1", "b1")

(***************************************************************************)
(* Claims about the quorum arithmetic, checked under QuorumSpec.           *)
(***************************************************************************)
\* ceil(threshold x validator_count), in exact arithmetic on the decimal
\* threshold lit/100.
CeilOfProduct(lit, count) == (lit * count + 99) \div 100

Successor(st, st2) ==
    \/ st = "Idle" /\ st2 = "Proposing"
    \/ st = "Proposing" /\ st2 = "Voting"
    \/ st = "Voting" /\ st2 \in Terminal

\* C16: the consensus state only moves one stage forward along
\* Idle -> Proposed -> Voting -> {Committed, Rejected, TimedOut}, and it
\* becomes Committed only when the commit condition holds for a proposal.
C16_StateMachineOrder ==
    [][state' # state
       => (/\ Successor(state, state')
           /\ (state' = "Committed" => \E b \in Blocks : CommitCondition(b)))]_vars

\* The votes submitted on proposal b since new() or reset().
CastOn(b) == {v \in cast : v.block_hash = b}

\* C17: what is recorded and decided depends on the set of votes submitted,
\* not on their order: after any sequence of submit_vote calls the recorded
\* votes of a proposal are exactly the votes submitted on it, each once;
\* check_consensus is decided by their number; and a submit_vote returns
\* DuplicateVote exactly when that validator's vote on that proposal was
\* submitted before, Ok otherwise.
C17_VoteOrderIndependent ==
    /\ \A b \in Blocks :
          /\ (b \in DOMAIN votes) = (CastOn(b) # {})
          /\ b \in DOMAIN votes =>
                /\ {votes[b][i] : i \in 1..Len(votes[b])} = CastOn(b)
                /\ Len(votes[b]) = Cardinality(CastOn(b))
          /\ CommitCondition(b) =
                (/\ CastOn(b) # {}
                 /\ Cardinality(CastOn(b)) >=
                       required_votes(validator_count, threshold.f64))
    /\ cret.op = "submit_vote" =>
          cret.result = IF cret.seen THEN "DuplicateVote" ELSE "Ok"

\* C17 witness: the three validators voted on b1 in the order v3, v1, v2,
\* the last of them just now, and on b2 in another order.
C17_Witness ==
    /\ "b1" \in DOMAIN votes /\ "b2" \in DOMAIN votes
    /\ votes["b1"] = <<Vote("v3", "b1"), Vote("v1", "b1"), Vote("v2", "b1")>>
    /\ votes["b2"] = <<Vote("v1", "b2"), Vote("v3", "b2")>>
    /\ cret.op = "submit_vote" /\ cret.vote = Vote("v2", "b1")
    /\ cret.result = "Ok"
    /\ CommitCondition("b1")

\* The validators that voted on proposal b.
VotersOf(b) ==
    IF b \in DOMAIN votes
    THEN {votes[b][i].validator_id : i \in 1..Len(votes[b])}
    ELSE {}

\* votes_for: every recorded Vote on b is a vote for b (Vote has no approve).
VotesFor(b) == Cardinality(VotersOf(b))

\* votes_against: the validators that voted for a competing proposal and
\* not for b (the one way the code lets a validator withhold approval).
VotesAgainst(b) ==
    Cardinality({v \in Validators :
                    /\ v \notin VotersOf(b)
                    /\ \E c \in Blocks \ {b} : v \in VotersOf(c)})

OpenProposals ==
    IF state \in Terminal THEN {}
    ELSE {b \in DOMAIN votes : ~CommitCondition(b)}

\* C19: at most one proposal is non-terminal (being voted on) at any
\* instant; nothing in the engine tells the proposals of one task from
\* those of another, so this is the bound for every task.
C19_OneOpenProposal == Cardinality(OpenProposals) <= 1

(***************************************************************************)
(* Claims about the task pipeline, checked under LiveSpec.                 *)
(***************************************************************************)
\* The terminal task statuses.
TerminalStatus == {"Completed", "Failed", "Cancelled"}

\* C20: every admitted task (schedule_task returned Ok) eventually has a
\* terminal status, Completed, Failed or Cancelled.
C20_AdmittedTaskTerminates ==
    \A id \in 1..MaxTasks :
        (id \in accepted) ~> (exec_status[id] \in TerminalStatus)

(***************************************************************************)
(* Claims about the engine's robustness, checked under LiveSpec.           *)
(***************************************************************************)
\* C21: the thread that drives the CoordinationEngine never panics: building
\* the engine and coordinating a task return a value or an error value.
C21_EngineNeverCrashes == coord # "panicked"

(***************************************************************************)
(* Claims about cancellation, checked under ExecutorSpec.                  *)
(***************************************************************************)
\* The ids in the active list.
ActiveIds(active) == {active[i] : i \in 1..Len(active)}

\* C22: when the last cancel_task call returned Ok for the task a thread is
\* executing and took it off the active list, that execution does not report
\* Completed and does not increase the completed count when it ends.
C22_CancelledNotCompleted ==
    [][\A t \in Threads :
          (/\ epc[t] = "exec_finish" /\ epc'[t] = "idle"
           /\ eret.result = "Ok" /\ eret.task_id = eframe[t]
           /\ eframe[t] \notin ActiveIds(active_tasks))
             => (/\ exec_status'[eframe[t]] # "Completed"
                 /\ completed_count' = completed_count)]_vars

\* C23: a cancel_task call for a task id that is not active returns the
\* not-found error and leaves the active tasks and the completed count as
\* they were.
C23_CancelUnknownChangesNothing ==
    [][(eret' # eret /\ eret'.task_id \notin ActiveIds(eret'.active))
          => (/\ eret'.result = "TaskNotFound"
              /\ active_tasks' = active_tasks
              /\ completed_count' = completed_count)]_vars

\* C23 witness: with one task active and one completed, cancel_task for a
\* third id has returned the not-found error, and the active task is still
\* active.
C23_Witness ==
    /\ eret.result = "TaskNotFound"
    /\ eret.active # <<>>
    /\ eret.task_id \notin ActiveIds(eret.active)
    /\ active_tasks = eret.active
    /\ completed_count = 1
    /\ eret.count = 1

(***************************************************************************)
(* Claims about the service registry, checked under RegistrySpec.          *)
(***************************************************************************)
\* C24: a service query (query_services, get_services_by_type) never
\* returns an entry whose last heartbeat is older than heartbeat_timeout at
\* the time of the query.
C24_StaleNeverReturned ==
    sret.op \in {"query_services", "get_services_by_type"}
        => \A info \in sret.found :
              sret.at - info.last_heartbeat <= heartbeat_timeout

(***************************************************************************)
(* Claims about the health reporter, checked under ReporterSpec.           *)
(***************************************************************************)
\* C25: is_healthy() of a reporter with no registered component and no
\* health check run returns true.
C25_NewReporterIsHealthy ==
    (hret.op = "is_healthy" /\ components = {} /\ check_results = <<>>)
        => hret.healthy

(***************************************************************************)
(* Claims about the queue depth, checked under QueueConcSpec.              *)
(***************************************************************************)
\* The number of tasks get_next_task has handed out, of tasks 1..n.
RECURSIVE HandedOut(_)
HandedOut(n) == IF n = 0 THEN 0 ELSE handed[n] + HandedOut(n - 1)

\* C26: pending_task_count returns the number of successful schedule_task
\* calls minus the number of tasks get_next_task handed out (0 for a new
\* queue); a schedule_task refused with QueueFull and a get_next_task that
\* returns None leave the depth as it was.
C26_DepthIsSubmitsMinusHandedOut ==
    [][\A t \in Threads :
          /\ (qpc[t] = "count_len" /\ qpc'[t] = "idle")
                => qframe'[t].count = Cardinality(accepted) - HandedOut(MaxTasks)
          /\ (qpc[t] # "idle" /\ qpc'[t] = "idle"
                 /\ qframe'[t].result \in {"QueueFull", "None"})
                => (/\ pending_task_count(task_queue')
                         = pending_task_count(task_queue)
                    /\ accepted' = accepted
                    /\ handed' = handed)]_vars

\* C26 witness: three tasks were submitted, one of them refused, one handed
\* out, and pending_task_count has just returned 1.
C26_Witness ==
    \E t \in Threads :
        /\ qpc[t] = "idle" /\ qframe[t].op = "pending_task_count"
        /\ qframe[t].count = 1
        /\ created = 3 /\ Cardinality(accepted) = 2
        /\ HandedOut(MaxTasks) = 1
        /\ mutex = NoThread

(***************************************************************************)
(* Claims about the ledger's locking and its error paths, checked under    *)
(* LedgerConcSpec.                                                         *)
(***************************************************************************)
\* C27: while a thread is inside allocate or release on one resource id,
\* another thread's allocate, release or get_resource_status on a different
\* id is not made to wait.
C27_DistinctResourcesNotBlocked ==
    \A t \in Threads, u \in Threads :
        (/\ t # u
         /\ pc[t] \in {"alloc_check", "alloc_sub", "rel_add", "rel_min"}
         /\ pc[u] = "idle")
            => \A id \in ConcRIDs \ {frame[t].rid} :
                  /\ ENABLED LockWrite(u, "allocate", id, 0, 0)
                  /\ ENABLED LockWrite(u, "release", id, 0, 0)
                  /\ ENABLED LockRead(u, id)

(***************************************************************************)
(* Claims about the ledger's error paths, checked under LedgerPairSpec and *)
(* Spec.                                                                   *)
(***************************************************************************)
\* C28: allocate, release and get_resource_status on a resource id that is
\* not registered report not-found (NotFound, None) and change no resource.
C28_UnknownIdReportsNotFound ==
    [][(/\ ret'.op \in {"allocate", "release_raw", "get_resource_status"}
        /\ ret'.rid \notin DOMAIN resources)
       => (/\ ret'.result = (IF ret'.op = "get_resource_status"
                             THEN "None" ELSE "NotFound")
           /\ resources' = resources)]_vars

\* C29: register_resource with an id that is already registered returns the
\* already-exists error and leaves the registered resource, its capacity
\* and its current available, as it was.
C29_DuplicateRegisterRejected ==
    [][(ret'.op = "register_resource" /\ ret'.rid \in DOMAIN resources)
       => (/\ ret'.result = "AlreadyExists"
           /\ resources' = resources)]_vars

(***************************************************************************)
(* Claims about who can vote, checked under ConsensusOpenSpec.             *)
(***************************************************************************)
\* C30: the votes recorded for one proposal never number more than
\* validator_count.
C30_VotesWithinValidatorCount ==
    \A b \in DOMAIN votes : Len(votes[b]) <= validator_count

(***************************************************************************)
(* Claims about the quorum over time, checked under ConsensusSpec.         *)
(***************************************************************************)
\* C31: a proposal that satisfies check_consensus satisfies it after every
\* call other than reset; after reset the state is Idle, no vote is recorded
\* and no proposal satisfies check_consensus, and the submit_vote that
\* follows a reset is accepted, whoever the validator.
C31_ConsensusMonotoneUntilReset ==
    [][/\ \A b \in Blocks :
            (CommitCondition(b) /\ cret'.op # "reset")
               => check_consensus(votes', b, validator_count', threshold'.f64)
       /\ (cret'.op = "reset")
            => (/\ state' = "Idle"
                /\ votes' = <<>>
                /\ \A b \in Blocks :
                      ~check_consensus(votes', b, validator_count', threshold'.f64))
       /\ (cret.op = "reset" /\ cret'.op = "submit_vote")
            => (cret'.result = "Ok" /\ ~cret'.seen)]_vars

\* C31 witness: the quorum of b1 (2 of 3 at threshold 0.5) was reached with
\* the second vote, a third vote came in, and check_consensus has just
\* answered true again.
C31_Witness ==
    /\ threshold.lit = 50
    /\ cret.op = "check_consensus" /\ cret.vote.block_hash = "b1"
    /\ cret.result = "true"
    /\ "b1" \in DOMAIN votes
    /\ Len(votes["b1"]) = 3
    /\ required_votes(validator_count, threshold.f64) = 2

(***************************************************************************)
(* Claims about the health report, checked under ReporterSpec.             *)
(***************************************************************************)
\* C32: the overall status of a report is Healthy exactly when at least one
\* component result is recorded and every recorded result is Healthy; it is
\* Unhealthy when some result is Unhealthy, else Degraded when some result
\* is Degraded.
C32_OverallStatusAggregates ==
    hret.op \in {"get_health_report", "is_healthy"}
        => LET names == DOMAIN check_results
               some(st) == \E n \in names : check_results[n] = st
           IN  /\ (hret.status = "Healthy")
                     = (/\ names # {}
                        /\ \A n \in names : check_results[n] = "Healthy")
               /\ some("Unhealthy") => hret.status = "Unhealthy"
               /\ (~some("Unhealthy") /\ some("Degraded"))
                     => hret.status = "Degraded"

(***************************************************************************)
(* Claims about the executor's bookkeeping, checked under LiveSpec (no     *)
(* call is cancelled there).                                               *)
(***************************************************************************)
\* C33: the active list holds one entry per execute_task call in progress:
\* for every task id, as many entries as there are threads executing it.
C33_ActiveMatchesInProgress ==
    \A id \in 1..MaxTasks :
        Cardinality({i \in 1..Len(active_tasks) : active_tasks[i] = id})
            = Cardinality({t \in Threads : epc[t] # "idle" /\ eframe[t] = id})

(***************************************************************************)
(* Claims about the registry's indices, checked under RegistrySpec.        *)
(***************************************************************************)
\* The indices si and ci agree with the service map m.
IndicesAgree(m, si, ci) ==
    /\ \A id \in ServiceIds, ty \in ServiceTypes :
          (ty \in DOMAIN si /\ id \in si[ty])
             = (id \in DOMAIN m /\ m[id].service_type = ty)
    /\ \A id \in ServiceIds, c \in Capabilities :
          (c \in DOMAIN ci /\ id \in ci[c])
             = (id \in DOMAIN m /\ c \in m[id].capabilities)
    /\ DOMAIN si \subseteq ServiceTypes
    /\ DOMAIN ci \subseteq Capabilities

\* C35: after every call a service id is in service_index[type] exactly when
\* services holds a service with that id and type, and in
\* capability_index[c] exactly when services holds a service with that id
\* listing c; a register_service refused as a duplicate changes neither the
\* map nor the indices.
C35_IndicesAgreeWithServices ==
    [][/\ IndicesAgree(services', service_index', capability_index')
       /\ (sret'.result = "AlreadyRegistered" /\ sret'.op = "register_service")
            => UNCHANGED <<services, service_index, capability_index>>]_vars

\* C35 witness: s1 is registered as a Worker with the gpu capability, s2 was
\* registered as a Validator and deregistered again (its index entry is
\* left empty), and a second registration of s1 has just been refused.
C35_Witness ==
    /\ sret.op = "register_service" /\ sret.result = "AlreadyRegistered"
    /\ sret.service_id = "s1"
    /\ DOMAIN services = {"s1"}
    /\ services["s1"].service_type = "Worker"
    /\ services["s1"].capabilities = {"gpu"}
    /\ service_index = [ty \in ServiceTypes |->
                           IF ty = "Worker" THEN {"s1"} ELSE {}]
    /\ capability_index = [c \in Capabilities |-> {"s1"}]

(***************************************************************************)
(* Claims about the registry's locking, checked under RegistryConcSpec.    *)
(***************************************************************************)
\* C34: the threads inside registry calls are never all waiting for a lock
\* that another of them holds: when some thread is inside a call, some
\* thread inside a call can take its next step.
C34_NoDeadlock ==
    (\E t \in Threads : spc[t] # "idle")
        => \E t \in Threads : spc[t] # "idle" /\ ENABLED SStep(t)

\* C36: a cleanup pass deregisters a service only if the service is stale at
\* the moment it is removed from the map.
C36_CleanupRemovesOnlyStale ==
    [][\A t \in Threads, id \in ConcServiceIds :
          (/\ spc[t] = "cleanup_next"
           /\ spc'[t] = "dereg_index"
           /\ sframe'[t].service_id = id
           /\ id \in DOMAIN services
           /\ id \notin DOMAIN services')
             => now - services[id].last_heartbeat > heartbeat_timeout]_vars

(***************************************************************************)
(* Claims about the topology graph and peer discovery.                     *)
(***************************************************************************)
\* C37: in every reachable state both endpoints of every stored edge are
\* existing nodes, and every id in a node's connections is an existing node.
C37_ReferentialIntegrity ==
    /\ \A i \in 1..Len(edges) :
          edges[i].from_node \in DOMAIN nodes /\ edges[i].to_node \in DOMAIN nodes
    /\ \A id \in DOMAIN nodes : nodes[id].connections \subseteq DOMAIN nodes

\* C38: a start_discovery call made while discovery is stopped that returns
\* an error leaves discovery stopped with no protocol active, and a
\* start_discovery call made right after stop_discovery succeeds.
C38_FailedStartLeavesStopped ==
    [][/\ (/\ ~discovery_enabled
           /\ pret'.op = "start_discovery" /\ pret'.result # "Ok")
            => (~discovery_enabled' /\ active_discoveries' = {})
       /\ (pret.op = "stop_discovery" /\ pret'.op = "start_discovery")
            => pret'.result = "Ok"]_vars

====
